---------------------------- MODULE Spec2Model ----------------------------
(***************************************************************************)
(* A model of videodna's frame-streaming colour-reduction pipeline         *)
(* (internal/dna: the scanline reducers and GenerateWithLegend) and of      *)
(* the ffprobe metadata it starts from (internal/video).                    *)
(*                                                                         *)
(* Bytes, colours and images are modelled by value.  A colour is the        *)
(* tuple <<R, G, B, A>> of color.RGBA; a byte buffer is a function from     *)
(* 0..len-1 to 0..255; an image is its rectangle together with the pixel    *)
(* function over the points of the rectangle (image.RGBA).                  *)
(***************************************************************************)
EXTENDS Integers, Sequences, FiniteSets, TLC

(***************************************************************************)
(* Bounds of the model.                                                    *)
(***************************************************************************)
\* Largest probed width and height of a video frame.
MaxDim == 2
\* Largest frame count ffprobe reports (nb_frames).
MaxEstimate == 1
\* Most complete frames the decoder ever delivers on its pipe.
MaxStream == 12
\* Streams differ by their seed, 0..MaxSeed.
MaxSeed == 0

(***************************************************************************)
(* Bytes and colours.                                                      *)
(***************************************************************************)
Byte == 0..255

\* uint8(v): conversion of a non-negative integer to 8 bits.
U8(v) == v % 256

\* color.RGBA{R, G, B, A: 255}
RGB(r, g, b) == <<r, g, b, 255>>

\* The zero color.RGBA{}, what image.RGBA.At returns outside the rectangle
\* and what a freshly allocated image holds.
ZeroColor == <<0, 0, 0, 0>>

\* A buffer of n bytes from its sequence of values.
Buf(s) == [i \in 0..(Len(s) - 1) |-> s[i + 1]]

BufLen(b) == Cardinality(DOMAIN b)

\* frameBuf[lo:hi], re-indexed from 0.
Slice(b, lo, hi) == [i \in 0..(hi - lo - 1) |-> b[lo + i]]

(***************************************************************************)
(* Scanline reducers over a row: `width` packed RGB pixels.                *)
(***************************************************************************)
\* The running sum of channel ch over pixels 0..x-1 of the row.
RECURSIVE RowSum(_, _, _)
RowSum(row, x, ch) ==
  IF x = 0 THEN 0 ELSE RowSum(row, x - 1, ch) + row[(x - 1) * 3 + ch]

\* AverageColor divides by uint64(width): with width = 0 the division
\* panics (integer divide by zero).
AverageColorPanics(width) == width = 0

\* A mean rounded to the nearest integer instead of truncated.
ChannelMean_Rounded(sum, n) == U8((sum + n \div 2) \div n)

ChannelMean(sum, n) == U8(sum \div n)

AverageColor(row, width) ==
  RGB(ChannelMean(RowSum(row, width, 0), width),
      ChannelMean(RowSum(row, width, 1), width),
      ChannelMean(RowSum(row, width, 2), width))

\* A minimum that looks at the first pixel only (the index x*3 left out).
RowMin_FirstPixel(row, x, ch) == IF x = 0 THEN 255 ELSE row[ch]

\* The running minimum of channel ch over pixels 0..x-1, starting from 255.
RECURSIVE RowMin(_, _, _)
RowMin(row, x, ch) ==
  IF x = 0 THEN 255
  ELSE LET m == RowMin(row, x - 1, ch)
           v == row[(x - 1) * 3 + ch]
       IN  IF v < m THEN v ELSE m

MinColor(row, width) ==
  RGB(RowMin(row, width, 0), RowMin(row, width, 1), RowMin(row, width, 2))

\* The running maximum of channel ch over pixels 0..x-1, starting from 0.
RECURSIVE RowMax(_, _, _)
RowMax(row, x, ch) ==
  IF x = 0 THEN 0
  ELSE LET m == RowMax(row, x - 1, ch)
           v == row[(x - 1) * 3 + ch]
       IN  IF v > m THEN v ELSE m

MaxColor(row, width) ==
  RGB(RowMax(row, width, 0), RowMax(row, width, 1), RowMax(row, width, 2))

\* uint32(r)<<16 | uint32(g)<<8 | uint32(b)
Pack(r, g, b) == r * 65536 + g * 256 + b

\* A key unpacked in the reverse byte order.
Unpack_Reversed(p) == RGB(p % 256, (p \div 256) % 256, (p \div 65536) % 256)

\* The colour unpacked from a 24-bit key.
Unpack(p) == RGB((p \div 65536) % 256, (p \div 256) % 256, p % 256)

\* colorCount after the counting loop: the keys seen and their counts.
RowKeys(row, width) ==
  { Pack(row[x * 3], row[x * 3 + 1], row[x * 3 + 2]) : x \in 0..(width - 1) }

\* A count that records only that the key was seen (= 1 instead of ++).
RowCount_Seen(row, width, key) == 1

RowCount(row, width, key) ==
  Cardinality({ x \in 0..(width - 1) :
                  Pack(row[x * 3], row[x * 3 + 1], row[x * 3 + 2]) = key })

\* The selection loop `for col, count := range colorCount` run over the keys
\* in the order `order`: st = <<maxCount, mostCommon>>.
RECURSIVE ScanCounts(_, _, _, _)
ScanCounts(row, width, order, i) ==
  IF i = 0 THEN <<0, 0>>
  ELSE LET st == ScanCounts(row, width, order, i - 1)
           c  == RowCount(row, width, order[i])
       IN  IF c > st[1] THEN <<c, order[i]>> ELSE st

\* Every order in which a Go map of these keys can be iterated.
KeyOrders(keys) ==
  { o \in [1..Cardinality(keys) -> keys] :
      \A i, j \in DOMAIN o : i # j => o[i] # o[j] }

\* Go leaves the iteration order of a map unspecified: MostCommonColor
\* returns one of these colours.
MostCommonColor(row, width) ==
  { Unpack(ScanCounts(row, width, o, Len(o))[2]) :
      o \in KeyOrders(RowKeys(row, width)) }

(***************************************************************************)
(* Scanline reducers over a column of a whole frame buffer.                *)
(***************************************************************************)
RECURSIVE ColSum(_, _, _, _, _)
ColSum(buf, col, width, y, ch) ==
  IF y = 0 THEN 0
  ELSE ColSum(buf, col, width, y - 1, ch) + buf[((y - 1) * width + col) * 3 + ch]

AverageColorCol(buf, col, width, height) ==
  RGB(ChannelMean(ColSum(buf, col, width, height, 0), height),
      ChannelMean(ColSum(buf, col, width, height, 1), height),
      ChannelMean(ColSum(buf, col, width, height, 2), height))

RECURSIVE ColMin(_, _, _, _, _)
ColMin(buf, col, width, y, ch) ==
  IF y = 0 THEN 255
  ELSE LET m == ColMin(buf, col, width, y - 1, ch)
           v == buf[((y - 1) * width + col) * 3 + ch]
       IN  IF v < m THEN v ELSE m

MinColorCol(buf, col, width, height) ==
  RGB(ColMin(buf, col, width, height, 0), ColMin(buf, col, width, height, 1),
      ColMin(buf, col, width, height, 2))

RECURSIVE ColMax(_, _, _, _, _)
ColMax(buf, col, width, y, ch) ==
  IF y = 0 THEN 0
  ELSE LET m == ColMax(buf, col, width, y - 1, ch)
           v == buf[((y - 1) * width + col) * 3 + ch]
       IN  IF v > m THEN v ELSE m

MaxColorCol(buf, col, width, height) ==
  RGB(ColMax(buf, col, width, height, 0), ColMax(buf, col, width, height, 1),
      ColMax(buf, col, width, height, 2))

\* The pixels of column col laid out as a row of `height` pixels.
ColumnAsRow(buf, col, width, height) ==
  [i \in 0..(height * 3 - 1) |-> buf[((i \div 3) * width + col) * 3 + (i % 3)]]

\* MostCommonColorCol counts and selects exactly as MostCommonColor does,
\* over the pixels at (y*width + col)*3.
MostCommonColorCol(buf, col, width, height) ==
  MostCommonColor(ColumnAsRow(buf, col, width, height), height)

(***************************************************************************)
(* Images (image.RGBA): a rectangle [x0, x1) x [y0, y1) and its pixels.     *)
(***************************************************************************)
Points(x0, y0, x1, y1) == (x0..(x1 - 1)) \X (y0..(y1 - 1))

\* image.NewRGBA(image.Rect(x0, y0, x1, y1)): image.Rect puts the corners in
\* order; every pixel starts as the zero colour.
NewRGBA(x0, y0, x1, y1) ==
  LET ax == IF x0 <= x1 THEN x0 ELSE x1
      bx == IF x0 <= x1 THEN x1 ELSE x0
      ay == IF y0 <= y1 THEN y0 ELSE y1
      by == IF y0 <= y1 THEN y1 ELSE y0
  IN  [x0 |-> ax, y0 |-> ay, x1 |-> bx, y1 |-> by,
       pix |-> [p \in Points(ax, ay, bx, by) |-> ZeroColor]]

\* The image of the zero rectangle (&image.RGBA{}).
EmptyImage == NewRGBA(0, 0, 0, 0)

\* Bounds().Dx() and Bounds().Dy()
Dx(img) == img.x1 - img.x0
Dy(img) == img.y1 - img.y0

\* Point{x, y}.In(img.Rect)
InRect(img, x, y) == img.x0 <= x /\ x < img.x1 /\ img.y0 <= y /\ y < img.y1

\* image.RGBA.At: the zero colour outside the rectangle.
At(img, x, y) == IF InRect(img, x, y) THEN img.pix[<<x, y>>] ELSE ZeroColor

\* image.RGBA.Set: a write outside the rectangle is dropped.
SetPixel(img, x, y, c) ==
  IF InRect(img, x, y) THEN [img EXCEPT !.pix[<<x, y>>] = c] ELSE img

\* image.RGBA.SubImage(image.Rect(x0, y0, x1, y1)): the rectangle is
\* intersected with the image's; an empty intersection gives &image.RGBA{}.
SubImage(img, x0, y0, x1, y1) ==
  LET ax == IF x0 > img.x0 THEN x0 ELSE img.x0
      ay == IF y0 > img.y0 THEN y0 ELSE img.y0
      bx == IF x1 < img.x1 THEN x1 ELSE img.x1
      by == IF y1 < img.y1 THEN y1 ELSE img.y1
  IN  IF ax >= bx \/ ay >= by
      THEN EmptyImage
      ELSE [x0 |-> ax, y0 |-> ay, x1 |-> bx, y1 |-> by,
            pix |-> [p \in Points(ax, ay, bx, by) |-> img.pix[p]]]

(***************************************************************************)
(* Strings are sequences of code points.  The resize argument.             *)
(***************************************************************************)
\* "input"
Str_input == <<105, 110, 112, 117, 116>>

\* unicode.ToLower on one code point: the ASCII capitals, and the capitals
\* of the Latin Extended-A pairs (even code point, lower case the next).
LowerChar(c) ==
  IF 65 <= c /\ c <= 90 THEN c + 32
  ELSE IF 256 <= c /\ c <= 311 /\ c % 2 = 0 THEN c + 1
  ELSE c

\* strings.ToLower
ToLower(s) == [i \in DOMAIN s |-> LowerChar(s[i])]

\* strings.Split(s, "x"): the pieces between the occurrences of "x" (120).
RECURSIVE SplitX(_)
SplitX(s) ==
  IF \A i \in DOMAIN s : s[i] # 120
  THEN <<s>>
  ELSE LET k == CHOOSE i \in DOMAIN s :
                  s[i] = 120 /\ \A j \in 1..(i - 1) : s[j] # 120
       IN  <<SubSeq(s, 1, k - 1)>> \o SplitX(SubSeq(s, k + 1, Len(s)))

\* A decimal digit "0".."9".
IsDigit(c) == 48 <= c /\ c <= 57

\* The value of a run of decimal digits.
RECURSIVE DigitsValue(_)
DigitsValue(s) ==
  IF Len(s) = 0 THEN 0
  ELSE DigitsValue(SubSeq(s, 1, Len(s) - 1)) * 10 + (s[Len(s)] - 48)

\* strconv.Atoi: an optional sign ("+" 43, "-" 45), then one or more digits.
Atoi(s) ==
  LET signed == Len(s) > 0 /\ s[1] \in {43, 45}
      digits == IF signed THEN SubSeq(s, 2, Len(s)) ELSE s
      ok     == Len(digits) > 0 /\ \A i \in DOMAIN digits : IsDigit(digits[i])
  IN  [ok  |-> ok,
       val |-> IF ~ok THEN 0
               ELSE IF signed /\ s[1] = 45 THEN 0 - DigitsValue(digits)
               ELSE DigitsValue(digits)]

\* A resize block that takes "input" as height x width.
ParseResize_Swapped(rs, w, h) ==
  IF rs = <<>> THEN [resize |-> FALSE, ok |-> TRUE, w |-> 0, h |-> 0]
  ELSE IF rs = Str_input THEN [resize |-> TRUE, ok |-> TRUE, w |-> h, h |-> w]
  ELSE LET parts == SplitX(ToLower(rs))
       IN  IF Len(parts) # 2
           THEN [resize |-> TRUE, ok |-> FALSE, w |-> 0, h |-> 0]
           ELSE LET tw == Atoi(parts[1])
                    th == Atoi(parts[2])
                IN  [resize |-> TRUE, ok |-> tw.ok /\ th.ok,
                     w |-> tw.val, h |-> th.val]

\* The resize block of GenerateWithLegend up to the call of resizeImage:
\* whether a resize is asked for, whether the string parses, and the target.
ParseResize(rs, w, h) ==
  IF rs = <<>> THEN [resize |-> FALSE, ok |-> TRUE, w |-> 0, h |-> 0]
  ELSE IF rs = Str_input THEN [resize |-> TRUE, ok |-> TRUE, w |-> w, h |-> h]
  ELSE LET parts == SplitX(ToLower(rs))
       IN  IF Len(parts) # 2
           THEN [resize |-> TRUE, ok |-> FALSE, w |-> 0, h |-> 0]
           ELSE LET tw == Atoi(parts[1])
                    th == Atoi(parts[2])
                IN  [resize |-> TRUE, ok |-> tw.ok /\ th.ok,
                     w |-> tw.val, h |-> th.val]

(***************************************************************************)
(* resizeImage: bilinear scaling.  The float64 arithmetic is carried out    *)
(* on exact fractions: srcX = x*srcW/targetW has integer part x0 and        *)
(* fractional part xn/targetW.                                              *)
(***************************************************************************)
\* color.RGBA.RGBA(): each 8-bit channel widened to 16 bits (v | v<<8).
Wide(v) == v * 257

\* A blend with the two weights of each axis exchanged.
Bilinear_SwappedWeights(v00, v10, v01, v11, xn, tw, yn, th) ==
  ((v00 * xn + v10 * (tw - xn)) * yn
   + (v01 * xn + v11 * (tw - xn)) * (th - yn)) \div (tw * th)

\* bilinear(v00, v10, v01, v11, xn/tw, yn/th), truncated to uint32.
Bilinear(v00, v10, v01, v11, xn, tw, yn, th) ==
  ((v00 * (tw - xn) + v10 * xn) * (th - yn)
   + (v01 * (tw - xn) + v11 * xn) * yn) \div (tw * th)

\* The four source coordinates sampled for destination pixel (x, y).
SampleCoords(srcW, srcH, targetW, targetH, x, y) ==
  LET x0 == (x * srcW) \div targetW
      y0 == (y * srcH) \div targetH
  IN  [x0 |-> x0, y0 |-> y0,
       x1 |-> IF x0 + 1 >= srcW THEN srcW - 1 ELSE x0 + 1,
       y1 |-> IF y0 + 1 >= srcH THEN srcH - 1 ELSE y0 + 1,
       xn |-> (x * srcW) % targetW,
       yn |-> (y * srcH) % targetH]

ResizePixel(src, targetW, targetH, x, y) ==
  LET s   == SampleCoords(Dx(src), Dy(src), targetW, targetH, x, y)
      c00 == At(src, src.x0 + s.x0, src.y0 + s.y0)
      c10 == At(src, src.x0 + s.x1, src.y0 + s.y0)
      c01 == At(src, src.x0 + s.x0, src.y0 + s.y1)
      c11 == At(src, src.x0 + s.x1, src.y0 + s.y1)
      ch(i) == U8(Bilinear(Wide(c00[i]), Wide(c10[i]), Wide(c01[i]), Wide(c11[i]),
                           s.xn, targetW, s.yn, targetH) \div 256)
  IN  RGB(ch(1), ch(2), ch(3))

\* The loops run over 0 <= x < targetW, 0 <= y < targetH only; any other
\* pixel of dst keeps the zero colour.
resizeImage(src, targetW, targetH) ==
  LET dst == NewRGBA(0, 0, targetW, targetH)
  IN  [dst EXCEPT !.pix =
         [p \in DOMAIN dst.pix |->
            IF 0 <= p[1] /\ p[1] < targetW /\ 0 <= p[2] /\ p[2] < targetH
            THEN ResizePixel(src, targetW, targetH, p[1], p[2])
            ELSE ZeroColor]]

(***************************************************************************)
(* Decoration.                                                             *)
(***************************************************************************)
BorderColor == RGB(80, 80, 80)

\* A border on the first and the last column instead.
addBorderLines_Columns(src) ==
  LET w == Dx(src)
      h == Dy(src)
  IN  [x0 |-> 0, y0 |-> 0, x1 |-> w, y1 |-> h,
       pix |-> [p \in Points(0, 0, w, h) |->
                  IF p[1] = 0 \/ p[1] = w - 1
                  THEN BorderColor
                  ELSE At(src, src.x0 + p[1], src.y0 + p[2])]]

\* addBorderLines: a copy of src moved to the origin, with row 0 and row
\* h-1 painted in the border colour.
addBorderLines(src) ==
  LET w == Dx(src)
      h == Dy(src)
  IN  [x0 |-> 0, y0 |-> 0, x1 |-> w, y1 |-> h,
       pix |-> [p \in Points(0, 0, w, h) |->
                  IF p[2] = 0 \/ p[2] = h - 1
                  THEN BorderColor
                  ELSE At(src, src.x0 + p[1], src.y0 + p[2])]]

\* bitmapFont: the 7 rows of the glyph of byte b, or <<>> when the table
\* has no entry for b.  A row is its string; GlyphLit reads its columns.
bitmapFont(b) ==
  CASE
       b = 97 -> <<"..#..", ".#.#.", "#...#", "#####", "#...#", "#...#", "#...#">>
    [] b = 98 -> <<"####.", "#...#", "#...#", "####.", "#...#", "#...#", "####.">>
    [] b = 99 -> <<".###.", "#...#", "#....", "#....", "#....", "#...#", ".###.">>
    [] b = 100 -> <<"####.", "#...#", "#...#", "#...#", "#...#", "#...#", "####.">>
    [] b = 101 -> <<"#####", "#....", "#....", "####.", "#....", "#....", "#####">>
    [] b = 102 -> <<"#####", "#....", "#....", "####.", "#....", "#....", "#....">>
    [] b = 103 -> <<".###.", "#....", "#....", "#.###", "#...#", "#...#", ".###.">>
    [] b = 104 -> <<"#...#", "#...#", "#...#", "#####", "#...#", "#...#", "#...#">>
    [] b = 105 -> <<".###.", "..#..", "..#..", "..#..", "..#..", "..#..", ".###.">>
    [] b = 106 -> <<"..###", "...#.", "...#.", "...#.", "#..#.", "#..#.", ".##..">>
    [] b = 107 -> <<"#...#", "#..#.", "#.#..", "##...", "#.#..", "#..#.", "#...#">>
    [] b = 108 -> <<"#....", "#....", "#....", "#....", "#....", "#....", "#####">>
    [] b = 109 -> <<"#...#", "##.##", "#.#.#", "#...#", "#...#", "#...#", "#...#">>
    [] b = 110 -> <<"#...#", "##..#", "#.#.#", "#..##", "#...#", "#...#", "#...#">>
    [] b = 111 -> <<".###.", "#...#", "#...#", "#...#", "#...#", "#...#", ".###.">>
    [] b = 112 -> <<"####.", "#...#", "#...#", "####.", "#....", "#....", "#....">>
    [] b = 113 -> <<".###.", "#...#", "#...#", "#...#", "#.#.#", "#..#.", ".##.#">>
    [] b = 114 -> <<"####.", "#...#", "#...#", "####.", "#.#..", "#..#.", "#...#">>
    [] b = 115 -> <<".####", "#....", "#....", ".###.", "....#", "....#", "####.">>
    [] b = 116 -> <<"#####", "..#..", "..#..", "..#..", "..#..", "..#..", "..#..">>
    [] b = 117 -> <<"#...#", "#...#", "#...#", "#...#", "#...#", "#...#", ".###.">>
    [] b = 118 -> <<"#...#", "#...#", "#...#", "#...#", ".#.#.", ".#.#.", "..#..">>
    [] b = 119 -> <<"#...#", "#...#", "#...#", "#.#.#", "#.#.#", "##.##", "#...#">>
    [] b = 120 -> <<"#...#", ".#.#.", "..#..", "..#..", "..#..", ".#.#.", "#...#">>
    [] b = 121 -> <<"#...#", "#...#", ".#.#.", "..#..", "..#..", "..#..", "..#..">>
    [] b = 122 -> <<"#####", "....#", "...#.", "..#..", ".#...", "#....", "#####">>
    [] b = 48 -> <<".###.", "#...#", "#..##", "#.#.#", "##..#", "#...#", ".###.">>
    [] b = 49 -> <<"..#..", ".##..", "..#..", "..#..", "..#..", "..#..", ".###.">>
    [] b = 50 -> <<".###.", "#...#", "....#", "..##.", ".#...", "#....", "#####">>
    [] b = 51 -> <<".###.", "#...#", "....#", "..##.", "....#", "#...#", ".###.">>
    [] b = 52 -> <<"#...#", "#...#", "#...#", "#####", "....#", "....#", "....#">>
    [] b = 53 -> <<"#####", "#....", "####.", "....#", "....#", "#...#", ".###.">>
    [] b = 54 -> <<".###.", "#....", "####.", "#...#", "#...#", "#...#", ".###.">>
    [] b = 55 -> <<"#####", "....#", "...#.", "..#..", ".#...", "#....", "#....">>
    [] b = 56 -> <<".###.", "#...#", "#...#", ".###.", "#...#", "#...#", ".###.">>
    [] b = 57 -> <<".###.", "#...#", "#...#", ".####", "....#", "....#", ".###.">>
    [] b = 46 -> <<".....", ".....", ".....", ".....", ".....", "..#..", "..#..">>
    [] b = 124 -> <<"..#..", "..#..", "..#..", "..#..", "..#..", "..#..", "..#..">>
    [] b = 45 -> <<".....", ".....", ".....", "#####", ".....", ".....", ".....">>
    [] b = 95 -> <<".....", ".....", ".....", ".....", ".....", ".....", "#####">>
    [] b = 32 -> <<".....", ".....", ".....", ".....", ".....", ".....", ".....">>
    [] b = 40 -> <<"...#.", "..#..", ".#...", ".#...", ".#...", "..#..", "...#.">>
    [] b = 41 -> <<".#...", "..#..", "...#.", "...#.", "...#.", "..#..", ".#...">>
    [] OTHER -> <<>>

\* The columns 0..4 of a glyph row that hold "#".
RowLit(r) ==
  CASE r = "....." -> {} [] r = "#####" -> {0, 1, 2, 3, 4}
    [] r = "..#.." -> {2} [] r = ".#.#." -> {1, 3} [] r = "#...#" -> {0, 4}
    [] r = "####." -> {0, 1, 2, 3} [] r = ".###." -> {1, 2, 3}
    [] r = "#...." -> {0} [] r = "#.###" -> {0, 2, 3, 4} [] r = "..###" -> {2, 3, 4}
    [] r = "...#." -> {3} [] r = "#..#." -> {0, 3} [] r = ".##.." -> {1, 2}
    [] r = "#.#.." -> {0, 2} [] r = "##..." -> {0, 1} [] r = "##.##" -> {0, 1, 3, 4}
    [] r = "#.#.#" -> {0, 2, 4} [] r = "##..#" -> {0, 1, 4} [] r = "#..##" -> {0, 3, 4}
    [] r = ".##.#" -> {1, 2, 4} [] r = ".####" -> {1, 2, 3, 4} [] r = "....#" -> {4}
    [] r = ".#..." -> {1} [] r = "..##." -> {2, 3}

\* byte(ch): a code point cut to its low 8 bits.
ByteOf(ch) == ch % 256

\* The pen's x before character i of the lower-cased text: a character
\* without a glyph advances it by 4, one with a glyph by len(pattern[0]) + 1.
RECURSIVE PenX(_, _, _)
PenX(text, i, x) ==
  IF i = 1 THEN x
  ELSE PenX(text, i - 1, x)
       + (IF bitmapFont(ByteOf(text[i - 1])) = <<>> THEN 4 ELSE 5 + 1)

\* The points drawText(img, text, x, y, c) paints: for character i with a
\* glyph, (pen + dx, y + dy) for every "#" at column dx of row dy.
TextPoints(text, x, y) ==
  LET low  == ToLower(text)
      pens == [i \in DOMAIN low |-> PenX(low, i, x)]
  IN  UNION { LET pattern == bitmapFont(ByteOf(low[i]))
              IN  IF pattern = <<>> THEN {}
                  ELSE UNION { { <<pens[i] + dx, y + dy>> : dx \in RowLit(pattern[dy + 1]) } :
                               dy \in 0..6 } :
              i \in DOMAIN low }

\* drawText: SetRGBA drops the points outside the image.
drawText(img, text, x, y, c) ==
  LET lit == TextPoints(text, x, y)
  IN  [img EXCEPT !.pix = [p \in DOMAIN img.pix |->
                             IF p \in lit THEN c ELSE img.pix[p]]]

\* fmt.Sprintf("%d", n) for n >= 0.
RECURSIVE Itoa(_)
Itoa(n) == IF n < 10 THEN <<48 + n>> ELSE Itoa(n \div 10) \o <<48 + (n % 10)>>

\* strings.Join(parts, " | ")
RECURSIVE JoinBar(_)
JoinBar(parts) ==
  IF Len(parts) = 0 THEN <<>>
  ELSE IF Len(parts) = 1 THEN parts[1]
  ELSE parts[1] \o <<32, 124, 32>> \o JoinBar(Tail(parts))

\* The legend text for a video whose probe gave no duration, frame rate or
\* codec name: name | <frames>f | <width>x<height>.
LegendText(name, w, h, frames) ==
  JoinBar(<<name>>
          \o (IF frames > 0 THEN <<Itoa(frames) \o <<102>>>> ELSE <<>>)
          \o (IF w > 0 /\ h > 0 THEN <<Itoa(w) \o <<120>> \o Itoa(h)>> ELSE <<>>))

LabelBg == RGB(25, 25, 30)

TextColor == RGB(200, 200, 200)

\* Integer division of Go: truncation toward zero.
GoDiv(a, b) == IF a >= 0 THEN a \div b ELSE 0 - ((0 - a) \div b)

\* addLegend: a band of legendHeight rows above a copy of src, with the
\* legend text drawn into it at x = 8.
addLegend(src, legendHeight, text) ==
  LET w   == Dx(src)
      h   == Dy(src)
      dst == NewRGBA(0, 0, w, h + legendHeight)
      bg  == [dst EXCEPT !.pix =
                [p \in DOMAIN dst.pix |->
                   IF p[2] >= legendHeight /\ p[2] - legendHeight < h
                   THEN At(src, src.x0 + p[1], src.y0 + p[2] - legendHeight)
                   ELSE IF p[2] < legendHeight THEN LabelBg
                   ELSE ZeroColor]]
  IN  drawText(bg, text, 8, GoDiv(legendHeight - 7, 2), TextColor)

\* strings.TrimSuffix(filepath.Base(path), filepath.Ext(path)) for a path
\* without a separator: the name up to its last "." (46).
BaseName(path) ==
  IF \A i \in DOMAIN path : path[i] # 46 THEN path
  ELSE LET k == CHOOSE i \in DOMAIN path :
                  path[i] = 46 /\ \A j \in (i + 1)..Len(path) : path[j] # 46
       IN  SubSeq(path, 1, k - 1)

(***************************************************************************)
(* The decoder's byte stream.  Stream `seed` holds the frames 0, 1, 2, ...  *)
(* in order; frame 0 mixes the palette's colours, the later frames are of   *)
(* one colour each, a different one from frame to frame.                    *)
(***************************************************************************)
Palette == << <<0, 0, 0>>, <<255, 255, 255>>, <<10, 20, 30>>, <<20, 10, 0>> >>

PixelOf(sd, k, p) ==
  IF k = 0 THEN Palette[((sd + p) % Len(Palette)) + 1]
  ELSE Palette[((sd + k) % Len(Palette)) + 1]

\* The k-th frame of the stream: w*h*3 bytes, row-major, 3 bytes per pixel.
FrameBytes(sd, k, w, h) ==
  [i \in 0..(w * h * 3 - 1) |-> PixelOf(sd, k, i \div 3)[(i % 3) + 1]]

(***************************************************************************)
(* The pipeline: GenerateWithLegend as a state machine.                    *)
(***************************************************************************)
VARIABLES
  pc,          \* where GenerateWithLegend stands
  err,         \* the error it returned, "" while it has returned none
  width,       \* info.Width
  height,      \* info.Height
  frameCount,  \* info.FrameCount
  vertical,    \* argument vertical
  mode,        \* argument mode
  resize,      \* argument resize
  silent,      \* argument silent
  legend,      \* argument legend (LegendConfig)
  seed,        \* which stream the decoder produces
  ctxErr,      \* ctx.Err(): "" or "DeadlineExceeded"
  proc,        \* the ffmpeg process: none, running, exited, failed, killed
  readErr,     \* err of the loop body: the error io.ReadFull returned, or ""
  maxFrames,   \* capacity of the canvas along the growing axis
  dnaImage,    \* the canvas
  frameIdx,    \* frames processed so far
  finalImage,  \* the image being finished
  outFile,     \* the output path: absent, empty (created), or the encoded image
  printed,     \* lines written to stdout
  arg,         \* the input of a function applied on its own
  fn,          \* the function applied to it, "" before
  ret,         \* what it returned
  generate,    \* where audiodna.Generate stands
  goroutine,   \* where the goroutine of each stem stands
  errMu,       \* the mutex: 0 when free, else the index of its holder
  processErr,  \* "" for nil, else the label named by the recorded error
  stemDataList,\* the slots of the stems
  wg           \* the counter of the WaitGroup

vars == <<pc, err, width, height, frameCount, vertical, mode, resize, silent,
          legend, seed, ctxErr, proc, readErr, maxFrames, dnaImage,
          frameIdx, finalImage, outFile, printed, arg, fn, ret,
          generate, goroutine, errMu, processErr, stemDataList, wg>>

\* The variables of audiodna.Generate.
stems == <<generate, goroutine, errMu, processErr, stemDataList, wg>>

\* audiodna.Generate is not running.
NoStems ==
  /\ generate = "Idle"
  /\ goroutine = <<>>
  /\ errMu = 0
  /\ processErr = ""
  /\ stemDataList = <<>>
  /\ wg = 0

\* The variables of a function applied on its own and of
\* audiodna.Generate: idle during a run.
call == <<arg, fn, ret, stems>>

config == <<width, height, frameCount, vertical, mode, resize, silent, legend, seed>>

Modes == {"average", "min", "max", "common"}

\* "", "input", "3X1", a string that does not parse, "x2", and one with a
\* sign that strconv.Atoi accepts, "-1x1".
ResizeInputs ==
  { <<>>, Str_input, <<51, 88, 49>>, <<120, 50>>, <<45, 49, 120, 49>> }

\* LegendConfig{} as Generate passes it, and an enabled legend of 8 rows
\* named "A".
LegendInputs ==
  { [Enabled |-> FALSE, Height |-> 0, Name |-> <<>>],
    [Enabled |-> TRUE, Height |-> 8, Name |-> <<65>>] }

\* The input path "v.m".
InputPath == <<118, 46, 109>>

FrameSize == width * height * 3

Init ==
  /\ pc = "Probing"
  /\ err = ""
  /\ width \in 0..MaxDim
  /\ height \in 0..MaxDim
  /\ frameCount \in 0..MaxEstimate
  /\ vertical \in BOOLEAN
  /\ mode \in Modes
  /\ resize \in ResizeInputs
  /\ silent \in BOOLEAN
  /\ legend \in LegendInputs
  /\ seed \in 0..MaxSeed
  /\ ctxErr = ""
  /\ proc = "none"
  /\ readErr = ""
  /\ maxFrames = 0
  /\ dnaImage = EmptyImage
  /\ frameIdx = 0
  /\ finalImage = EmptyImage
  /\ outFile = "absent"
  /\ printed = 0
  /\ arg = <<>>
  /\ fn = ""
  /\ ret = <<>>
  /\ NoStems

Fail(e) == pc' = "Failed" /\ err' = e

\* video.GetFullInfo returns an error: ffprobe failed, its output did not
\* parse, or it listed no video stream.
ProbeFail ==
  /\ pc = "Probing"
  /\ Fail("ProbeFailure")
  /\ UNCHANGED <<call, config, ctxErr, proc, readErr, maxFrames, dnaImage,
                 frameIdx, finalImage, outFile, printed>>

\* The check of the probed properties.
InvalidProperties == frameCount = 0 \/ height = 0

\* GetFullInfo succeeds; the properties are checked, the first line is
\* printed and the context with the deadline is created.  The flag silent
\* and the count of printed lines before and after are parameters, so that
\* the step can be taken for either value of the flag.
ProbeAs(quiet, lines, linesAfter) ==
  /\ pc = "Probing"
  /\ IF InvalidProperties
     THEN Fail("InvalidVideo") /\ linesAfter = lines
     ELSE /\ pc' = "Starting"
          /\ linesAfter = IF quiet THEN lines ELSE lines + 1
          /\ UNCHANGED err
  /\ UNCHANGED <<call, config, ctxErr, proc, readErr, maxFrames, dnaImage,
                 frameIdx, finalImage, outFile>>

Probe == ProbeAs(silent, printed, printed')

\* cmd.StdoutPipe or cmd.Start fails: always when the deadline has already
\* passed, otherwise when ffmpeg cannot be started.
StartFail ==
  /\ pc = "Starting"
  /\ Fail("StartFailed")
  /\ UNCHANGED <<call, config, ctxErr, proc, readErr, maxFrames, dnaImage,
                 frameIdx, finalImage, outFile, printed>>

\* maxFrames := frameCount + frameCount/10 + 10
\* The headroom of a tenth rounded up instead of down.
Capacity_RoundedUp(n) == (11 * n + 9) \div 10 + 10

Capacity(n) == n + n \div 10 + 10

\* The capacity along the axis that does not grow.
NewCanvas_Transposed(w, h, cap, vert) ==
  IF vert THEN NewRGBA(0, 0, cap, h) ELSE NewRGBA(0, 0, w, cap)

\* The canvas as allocated: maxFrames along the growing axis.
NewCanvas(w, h, cap, vert) ==
  IF vert THEN NewRGBA(0, 0, w, cap) ELSE NewRGBA(0, 0, cap, h)

\* cmd.Start succeeds; the canvas, the reader and the frame buffer are
\* allocated and the loop is entered.
Start ==
  /\ pc = "Starting"
  /\ ctxErr = ""
  /\ proc' = "running"
  /\ maxFrames' = Capacity(frameCount)
  /\ dnaImage' = NewCanvas(width, height, Capacity(frameCount), vertical)
  /\ frameIdx' = 0
  /\ pc' = "Streaming"
  /\ UNCHANGED <<call, config, err, ctxErr, readErr, finalImage, outFile, printed>>

\* The deadline of the context passes while the context is still looked
\* at; exec.CommandContext kills the process if it is still running.
DeadlineElapses ==
  /\ pc \in {"Starting", "Streaming", "Waiting"}
  /\ ctxErr = ""
  /\ ctxErr' = "DeadlineExceeded"
  /\ proc' = IF proc = "running" THEN "killed" ELSE proc
  /\ UNCHANGED <<call, config, pc, err, readErr, maxFrames, dnaImage, frameIdx,
                 finalImage, outFile, printed>>

\* ffmpeg ends by itself, with exit status 0 (exited) or not (failed).
DecoderExit ==
  /\ proc = "running"
  /\ pc = "Streaming"
  /\ proc' \in {"exited", "failed"}
  /\ UNCHANGED <<call, config, pc, err, ctxErr, readErr, maxFrames, dnaImage,
                 frameIdx, finalImage, outFile, printed>>

\* Rows taken at a stride of one pixel instead of one row (y*3 for y*width*3).
RowColors_PixelStride(buf, w, y, md) ==
  LET row == Slice(buf, y * 3, y * 3 + w * 3)
  IN  CASE md = "average" -> {AverageColor(row, w)}
        [] md = "min"     -> {MinColor(row, w)}
        [] md = "max"     -> {MaxColor(row, w)}
        [] OTHER          -> MostCommonColor(row, w)

\* The colours the reducer of `md` can return for row y of the frame.
RowColors(buf, w, y, md) ==
  LET row == Slice(buf, y * w * 3, y * w * 3 + w * 3)
  IN  CASE md = "average" -> {AverageColor(row, w)}
        [] md = "min"     -> {MinColor(row, w)}
        [] md = "max"     -> {MaxColor(row, w)}
        [] OTHER          -> MostCommonColor(row, w)

\* The colours the reducer of `md` can return for column x of the frame.
ColColors(buf, w, h, x, md) ==
  CASE md = "average" -> {AverageColorCol(buf, x, w, h)}
    [] md = "min"     -> {MinColorCol(buf, x, w, h)}
    [] md = "max"     -> {MaxColorCol(buf, x, w, h)}
    [] OTHER          -> MostCommonColorCol(buf, x, w, h)

\* The lines one frame can reduce to: a colour per column (vertical) or
\* per row (horizontal).
FrameLines(buf, w, h, vert, md) ==
  LET n == IF vert THEN w ELSE h
      choices(i) == IF vert THEN ColColors(buf, w, h, i, md)
                    ELSE RowColors(buf, w, i, md)
  IN  { line \in [0..(n - 1) -> UNION { choices(i) : i \in 0..(n - 1) }] :
          \A i \in 0..(n - 1) : line[i] \in choices(i) }

\* Whether reducing a frame divides by zero: the average of no pixel.
FramePanics(w, h, vert, md) ==
  /\ md = "average"
  /\ IF vert THEN w > 0 /\ AverageColorPanics(h) ELSE h > 0 /\ AverageColorPanics(w)

\* A line written one position late.
WriteLine_OneLate(img, vert, idx, line) ==
  [img EXCEPT !.pix =
     [p \in DOMAIN img.pix |->
        IF vert
        THEN IF p[2] = idx + 1 /\ p[1] \in DOMAIN line THEN line[p[1]] ELSE img.pix[p]
        ELSE IF p[1] = idx + 1 /\ p[2] \in DOMAIN line THEN line[p[2]] ELSE img.pix[p]]]

\* dnaImage.Set(x, idx, c) for every column x (vertical), or
\* dnaImage.Set(idx, y, c) for every row y (horizontal).
WriteLine(img, vert, idx, line) ==
  [img EXCEPT !.pix =
     [p \in DOMAIN img.pix |->
        IF vert
        THEN IF p[2] = idx /\ p[1] \in DOMAIN line THEN line[p[1]] ELSE img.pix[p]
        ELSE IF p[1] = idx /\ p[2] \in DOMAIN line THEN line[p[2]] ELSE img.pix[p]]]

\* frameIdx%100 == 0: the period of the progress line.
ProgressEvery == 100

\* The decoder has ended (the write end of the pipe is closed).
Ended == proc \in {"exited", "failed", "killed"}

\* io.ReadFull fills frameBuf: the decoder delivers one more frame, or one
\* it wrote before it ended is still in the pipe.  With a frame size of 0
\* it returns at once, having read nothing.  One iteration of the loop
\* follows.
ReadFrameAs(quiet, lines, linesAfter) ==
  /\ pc = "Streaming"
  /\ frameIdx < MaxStream \/ frameIdx < frameCount
  /\ proc # "none"
  /\ IF FramePanics(width, height, vertical, mode)
     THEN pc' = "Panicked" /\ UNCHANGED <<dnaImage, frameIdx>> /\ linesAfter = lines
     ELSE /\ \E line \in FrameLines(FrameBytes(seed, frameIdx, width, height),
                                    width, height, vertical, mode) :
               dnaImage' = WriteLine(dnaImage, vertical, frameIdx, line)
          /\ frameIdx' = frameIdx + 1
          /\ linesAfter = IF ~quiet /\ (frameIdx + 1) % ProgressEvery = 0
                         THEN lines + 1 ELSE lines
          /\ UNCHANGED pc
  /\ UNCHANGED <<call, config, err, ctxErr, proc, readErr, maxFrames, finalImage,
                 outFile>>

ReadFrame == ReadFrameAs(silent, printed, printed')

\* The sizes of an incomplete last frame: one byte, all but one byte.
TailSizes == {n \in {1, FrameSize - 1} : 0 < n /\ n < FrameSize}

\* io.ReadFull returns io.EOF: the decoder has ended and the pipe is empty
\* on a frame boundary.  The loop is left.
ReadEOF ==
  /\ pc = "Streaming"
  /\ FrameSize > 0
  /\ Ended
  /\ readErr' = "EOF"
  /\ pc' = "Waiting"
  /\ UNCHANGED <<call, config, err, ctxErr, proc, maxFrames, dnaImage, frameIdx,
                 finalImage, outFile, printed>>

\* A read of a partial frame whose buffer is reduced and appended like a
\* complete frame (the stale rest of the buffer padding it).
ReadUnexpectedEOF_Appends ==
  /\ pc = "Streaming"
  /\ FrameSize > 0
  /\ Ended
  /\ \E n \in TailSizes : readErr' = "ErrUnexpectedEOF"
  /\ \E line \in FrameLines(FrameBytes(seed, frameIdx, width, height),
                             width, height, vertical, mode) :
       dnaImage' = WriteLine(dnaImage, vertical, frameIdx, line)
  /\ frameIdx' = frameIdx + 1
  /\ pc' = "Waiting"
  /\ UNCHANGED <<call, config, err, ctxErr, proc, maxFrames, finalImage,
                 outFile, printed>>

\* A read of a partial frame that fails the run.
ReadUnexpectedEOF_Fails ==
  /\ pc = "Streaming"
  /\ FrameSize > 0
  /\ Ended
  /\ \E n \in TailSizes : readErr' = "ErrUnexpectedEOF"
  /\ pc' = "Failed"
  /\ err' = "TruncatedStream"
  /\ UNCHANGED <<call, config, ctxErr, proc, maxFrames, dnaImage, frameIdx,
                 finalImage, outFile, printed>>

\* io.ReadFull returns n bytes and io.ErrUnexpectedEOF: the stream ended
\* inside a frame, after n bytes of it.  The count is dropped (`_, err :=`)
\* and the loop is left as for io.EOF.
ReadUnexpectedEOF ==
  /\ pc = "Streaming"
  /\ FrameSize > 0
  /\ Ended
  /\ \E n \in TailSizes : readErr' = "ErrUnexpectedEOF"
  /\ pc' = "Waiting"
  /\ UNCHANGED <<call, config, err, ctxErr, proc, maxFrames, dnaImage, frameIdx,
                 finalImage, outFile, printed>>

\* io.ReadFull returns any other error: the run fails.
ReadError ==
  /\ pc = "Streaming"
  /\ FrameSize > 0
  /\ proc = "running"
  /\ readErr' = "error"
  /\ Fail("ReadFailed")
  /\ UNCHANGED <<call, config, ctxErr, proc, maxFrames, dnaImage, frameIdx,
                 finalImage, outFile, printed>>

\* cmd.Wait returns an error when ffmpeg was killed or exited with a
\* non-zero status.
WaitError == proc \in {"failed", "killed"}

\* cmd.Wait: only an error together with an expired context fails the run.
\* The loop body's err is out of scope from here on.
Wait ==
  /\ pc = "Waiting"
  /\ Ended
  /\ readErr' = ""
  /\ IF WaitError /\ ctxErr = "DeadlineExceeded"
     THEN Fail("Timeout")
     ELSE pc' = "Finalizing" /\ UNCHANGED err
  /\ UNCHANGED <<call, config, ctxErr, proc, maxFrames, dnaImage,
                 frameIdx, finalImage, outFile, printed>>

\* A canvas cropped to the estimate instead of the frames processed.
Crop_ToEstimate(img, w, h, n, vert) ==
  IF vert THEN SubImage(img, 0, 0, w, frameCount) ELSE SubImage(img, 0, 0, frameCount, h)

\* The canvas cropped to the frames processed.
Crop(img, w, h, n, vert) ==
  IF vert THEN SubImage(img, 0, 0, w, n) ELSE SubImage(img, 0, 0, n, h)

\* The summary block of a silent run takes the crop with it: the canvas
\* is passed on whole.
FinalizeAs_QuietKeepsCanvas(quiet, lines, linesAfter) ==
  /\ pc = "Finalizing"
  /\ linesAfter = IF quiet THEN lines ELSE lines + 1
  /\ finalImage' = IF quiet THEN dnaImage
                   ELSE Crop(dnaImage, width, height, frameIdx, vertical)
  /\ pc' = "Resampling"
  /\ UNCHANGED <<call, config, err, ctxErr, proc, readErr, maxFrames, dnaImage,
                 frameIdx, outFile>>

\* The summary line is printed and the canvas is cropped.
FinalizeAs(quiet, lines, linesAfter) ==
  /\ pc = "Finalizing"
  /\ linesAfter = IF quiet THEN lines ELSE lines + 1
  /\ finalImage' = Crop(dnaImage, width, height, frameIdx, vertical)
  /\ pc' = "Resampling"
  /\ UNCHANGED <<call, config, err, ctxErr, proc, readErr, maxFrames, dnaImage,
                 frameIdx, outFile>>

Finalize == FinalizeAs(silent, printed, printed')

\* The resize block: nothing without a resize argument, an error when it
\* does not parse, resizeImage otherwise.
Resample ==
  /\ pc = "Resampling"
  /\ LET r == ParseResize(resize, width, height)
     IN  IF ~r.ok
         THEN Fail("InvalidResizeSpec") /\ UNCHANGED finalImage
         ELSE /\ finalImage' = IF r.resize THEN resizeImage(finalImage, r.w, r.h)
                               ELSE finalImage
              /\ pc' = "Decorating"
              /\ UNCHANGED err
  /\ UNCHANGED <<call, config, ctxErr, proc, readErr, maxFrames, dnaImage,
                 frameIdx, outFile, printed>>

\* legend.Height, 24 when it is 0.
LegendHeight(lg) == IF lg.Height = 0 THEN 24 ELSE lg.Height

\* legend.Name, the base name of the input path when it is empty.
LegendName(lg) == IF lg.Name = <<>> THEN BaseName(InputPath) ELSE lg.Name

\* A decoration that is resized to the target once more after the legend
\* has been added: the band is resampled with the image.
Decorated_ThenResized(img, lg, w, h, frames) ==
  LET bordered == addBorderLines(img)
      done     == IF lg.Enabled
                  THEN addLegend(bordered, LegendHeight(lg),
                                 LegendText(LegendName(lg), w, h, frames))
                  ELSE bordered
      r        == ParseResize(resize, w, h)
  IN  IF r.resize /\ r.ok THEN resizeImage(done, r.w, r.h) ELSE done

\* The border lines, then the legend if it is enabled.
Decorated(img, lg, w, h, frames) ==
  LET bordered == addBorderLines(img)
  IN  IF lg.Enabled
      THEN addLegend(bordered, LegendHeight(lg),
                     LegendText(LegendName(lg), w, h, frames))
      ELSE bordered

Decorate ==
  /\ pc = "Decorating"
  /\ finalImage' = Decorated(finalImage, legend, width, height, frameCount)
  /\ pc' = "Persisting"
  /\ UNCHANGED <<call, config, err, ctxErr, proc, readErr, maxFrames, dnaImage,
                 frameIdx, outFile, printed>>

\* os.Create fails: nothing is written.
CreateFail ==
  /\ pc = "Persisting"
  /\ Fail("CreateFailed")
  /\ UNCHANGED <<call, config, ctxErr, proc, readErr, maxFrames, dnaImage,
                 frameIdx, finalImage, outFile, printed>>

\* png.Encode refuses an image without pixels ("invalid image size").
EncodeFails(img) == Dx(img) <= 0 \/ Dy(img) <= 0

\* os.Create makes (or empties) the output file, png.Encode writes the
\* image into it.
Persist ==
  /\ pc = "Persisting"
  /\ IF EncodeFails(finalImage)
     THEN Fail("EncodeFailed") /\ outFile' = "empty"
     ELSE pc' = "Done" /\ outFile' = "png" /\ UNCHANGED err
  /\ UNCHANGED <<call, config, ctxErr, proc, readErr, maxFrames, dnaImage,
                 frameIdx, finalImage, printed>>

Next ==
  \/ ProbeFail
  \/ Probe
  \/ StartFail
  \/ Start
  \/ DeadlineElapses
  \/ DecoderExit
  \/ ReadFrame
  \/ ReadEOF
  \/ ReadUnexpectedEOF
  \/ ReadError
  \/ Wait
  \/ Finalize
  \/ Resample
  \/ Decorate
  \/ CreateFail
  \/ Persist

Spec == Init /\ [][Next]_vars

(***************************************************************************)
(* The scanline reducers applied on their own: a run of samples is drawn,   *)
(* laid out as a row, or as one column of a frame, and one reducer is       *)
(* applied to it.                                                           *)
(***************************************************************************)
\* Longest run of samples drawn.
MaxSamples == 3

SampleColors ==
  { <<0, 0, 0>>, <<255, 255, 255>>, <<10, 20, 30>>, <<20, 10, 0>>, <<255, 0, 1>> }

SampleRuns == UNION { [1..n -> SampleColors] : n \in 1..MaxSamples }

\* The samples as a row of packed RGB bytes.
RowOf(samples) ==
  [i \in 0..(Len(samples) * 3 - 1) |-> samples[(i \div 3) + 1][(i % 3) + 1]]

\* A frame of width w and Len(samples) rows whose column col holds the
\* samples; every other pixel holds a colour that is no sample.
FrameWithColumn(samples, w, col) ==
  [i \in 0..(w * Len(samples) * 3 - 1) |->
     LET x == (i \div 3) % w
         y == (i \div 3) \div w
     IN  IF x = col THEN samples[y + 1][(i % 3) + 1]
         ELSE <<(40 * (x + 1)) % 256, (50 * (y + 1)) % 256, 99>>[(i % 3) + 1]]

run == <<pc, err, width, height, frameCount, vertical, mode, resize, silent,
         legend, seed, ctxErr, proc, readErr, maxFrames, dnaImage, frameIdx,
         finalImage, outFile, printed>>

\* No run of the pipeline is going on.
NoRun ==
  /\ pc = "Idle"
  /\ err = ""
  /\ width = 0 /\ height = 0 /\ frameCount = 0
  /\ vertical = FALSE
  /\ mode = "average"
  /\ resize = <<>>
  /\ silent = TRUE
  /\ legend = [Enabled |-> FALSE, Height |-> 0, Name |-> <<>>]
  /\ seed = 0
  /\ ctxErr = ""
  /\ proc = "none"
  /\ readErr = ""
  /\ maxFrames = 0
  /\ dnaImage = EmptyImage
  /\ frameIdx = 0
  /\ finalImage = EmptyImage
  /\ outFile = "absent"
  /\ printed = 0

InitReduce ==
  /\ NoRun
  /\ NoStems
  /\ arg \in { [samples |-> s, w |-> w, col |-> c] :
                 s \in SampleRuns, w \in 1..MaxDim, c \in 0..(MaxDim - 1) }
  /\ arg.col < arg.w
  /\ fn = ""
  /\ ret = ZeroColor

Returns(name, value) ==
  /\ fn = ""
  /\ fn' = name
  /\ ret' = value
  /\ UNCHANGED <<arg, run, stems>>

ApplyAverageColor ==
  Returns("AverageColor", AverageColor(RowOf(arg.samples), Len(arg.samples)))

ApplyMinColor ==
  Returns("MinColor", MinColor(RowOf(arg.samples), Len(arg.samples)))

ApplyMaxColor ==
  Returns("MaxColor", MaxColor(RowOf(arg.samples), Len(arg.samples)))

ApplyMostCommonColor ==
  \E c \in MostCommonColor(RowOf(arg.samples), Len(arg.samples)) :
    Returns("MostCommonColor", c)

ApplyAverageColorCol ==
  Returns("AverageColorCol",
          AverageColorCol(FrameWithColumn(arg.samples, arg.w, arg.col),
                          arg.col, arg.w, Len(arg.samples)))

ApplyMinColorCol ==
  Returns("MinColorCol",
          MinColorCol(FrameWithColumn(arg.samples, arg.w, arg.col),
                      arg.col, arg.w, Len(arg.samples)))

ApplyMaxColorCol ==
  Returns("MaxColorCol",
          MaxColorCol(FrameWithColumn(arg.samples, arg.w, arg.col),
                      arg.col, arg.w, Len(arg.samples)))

ApplyMostCommonColorCol ==
  \E c \in MostCommonColorCol(FrameWithColumn(arg.samples, arg.w, arg.col),
                              arg.col, arg.w, Len(arg.samples)) :
    Returns("MostCommonColorCol", c)

NextReduce ==
  \/ ApplyAverageColor
  \/ ApplyMinColor
  \/ ApplyMaxColor
  \/ ApplyMostCommonColor
  \/ ApplyAverageColorCol
  \/ ApplyMinColorCol
  \/ ApplyMaxColorCol
  \/ ApplyMostCommonColorCol

SpecReduce == InitReduce /\ [][NextReduce]_vars

(***************************************************************************)
(* Properties of a run.                                                     *)
(***************************************************************************)
\* The frames whose line the canvas holds: those read, up to its capacity.
Held == IF frameIdx < maxFrames THEN frameIdx ELSE maxFrames

\* Line k of an image along the growing axis: column k (horizontal) or
\* row k (vertical), as At reads it.
LineOf(img, k) ==
  [i \in 0..((IF vertical THEN width ELSE height) - 1) |->
     IF vertical THEN At(img, i, k) ELSE At(img, k, i)]

\* The lines frame k of the stream can reduce to.
Reduction(k) ==
  FrameLines(FrameBytes(seed, k, width, height), width, height, vertical, mode)

C3_Original == pc = "Done" => frameIdx <= maxFrames

\* C4: the number of lines appended so far is at most the capacity.
C4_Original == proc # "none" => frameIdx <= maxFrames

\* C5: an image is written only by a run that ends without an error, a
\* run that ends without an error has written one, and no run whose
\* decoder failed or was killed, or that overran the capacity, ends so.
C5_Original ==
  /\ outFile = "png" => (pc = "Done" /\ err = "")
  /\ pc = "Done" => (outFile = "png" /\ err = "")
  /\ pc = "Done" => (proc = "exited" /\ frameIdx <= maxFrames)

\* C6: once the deadline has killed the running decoder, the run is on
\* its way to Failed(Timeout) and nothing else: it is still in the loop or
\* waiting for the decoder, or it has failed with Timeout, and no image is
\* written.
C6_Original ==
  proc = "killed"
  => /\ \/ pc \in {"Streaming", "Waiting"}
        \/ pc = "Failed" /\ err = "Timeout"
     /\ outFile = "absent"

\* C7: with a probed width, height or frame count of zero the run fails
\* in Probing: the decoder is never started, no frame is read and no
\* image is written.
C7_Original ==
  (width = 0 \/ height = 0 \/ frameCount = 0)
  => /\ pc \in {"Probing", "Failed"}
     /\ proc = "none"
     /\ frameIdx = 0
     /\ outFile = "absent"

\* C8: lines are written in frame-arrival order.  At any time line k of
\* the canvas, for every k below the number of frames it holds, is a
\* reduction of frame k of the stream and the lines behind them are still
\* unwritten; no step changes a line already written; and every line k of
\* the cropped canvas is that same reduction of frame k.
C8_LinesInArrivalOrder ==
  /\ [](proc # "none"
        => /\ \A k \in 0..(maxFrames - 1) :
                IF k < frameIdx
                THEN LineOf(dnaImage, k) \in Reduction(k)
                ELSE \A i \in DOMAIN LineOf(dnaImage, k) :
                       LineOf(dnaImage, k)[i] = ZeroColor
           /\ pc = "Resampling"
              => \A k \in 0..(Held - 1) :
                   /\ LineOf(finalImage, k) = LineOf(dnaImage, k)
                   /\ LineOf(finalImage, k) \in Reduction(k))
  /\ [][proc # "none"
        => \A k \in 0..(Held - 1) : LineOf(dnaImage', k) = LineOf(dnaImage, k)]_vars

\* Three frames of a 2 x 2 video, vertical: rows 0, 1 and 2 of the cropped
\* canvas hold their lines, and the first two differ.
C8_Witness ==
  /\ pc = "Resampling"
  /\ width = 2 /\ height = 2 /\ vertical
  /\ frameIdx = 3
  /\ Dy(finalImage) = 3
  /\ LineOf(finalImage, 0) # LineOf(finalImage, 1)
  /\ LineOf(finalImage, 2) \in Reduction(2)

(***************************************************************************)
(* Properties of the reducers.                                              *)
(***************************************************************************)
RECURSIVE ChannelSum(_, _, _)
\* The sum of channel ch over the first n samples.
ChannelSum(samples, n, ch) ==
  IF n = 0 THEN 0 ELSE samples[n][ch] + ChannelSum(samples, n - 1, ch)

\* C9: the average of a non-empty row or column is, in each channel, the
\* sum of the channel over the samples divided by their number, truncated:
\* the result r is in 0..255 with r * n <= sum < (r + 1) * n, the sum the
\* reducer accumulates is the true sum (at most 255 * n), and the alpha is
\* 255.  The two rows of the 2 x 2 example give (127,127,127), (15,15,15).
C9_AverageIsTruncatedMean ==
  fn \in {"AverageColor", "AverageColorCol"}
  => LET n == Len(arg.samples)
     IN  /\ \A ch \in 1..3 :
              LET sum == ChannelSum(arg.samples, n, ch)
              IN  /\ ret[ch] \in 0..255
                  /\ ret[ch] * n <= sum
                  /\ sum < (ret[ch] + 1) * n
                  /\ sum <= 255 * n
                  /\ fn = "AverageColor"
                     => RowSum(RowOf(arg.samples), n, ch - 1) = sum
                  /\ fn = "AverageColorCol"
                     => ColSum(FrameWithColumn(arg.samples, arg.w, arg.col),
                               arg.col, arg.w, n, ch - 1) = sum
         /\ ret[4] = 255
         /\ arg.samples = << <<0, 0, 0>>, <<255, 255, 255>> >>
            => ret = <<127, 127, 127, 255>>
         /\ arg.samples = << <<10, 20, 30>>, <<20, 10, 0>> >>
            => ret = <<15, 15, 15, 255>>

\* The second column of a frame two pixels wide holds (0,0,0) and
\* (255,255,255): its average is (127,127,127).
C9_Witness ==
  /\ fn = "AverageColorCol"
  /\ arg.w = 2 /\ arg.col = 1
  /\ arg.samples = << <<0, 0, 0>>, <<255, 255, 255>> >>
  /\ ret = <<127, 127, 127, 255>>

\* C10: Min returns in each channel the least value of the channel over
\* the samples of a non-empty row or column, and Max the greatest: no
\* sample is below (above) it and some sample attains it.
C10_MinMaxPerChannel ==
  LET n == Len(arg.samples)
  IN  /\ fn \in {"MinColor", "MinColorCol"}
         => /\ \A ch \in 1..3 :
                 /\ \A i \in 1..n : ret[ch] <= arg.samples[i][ch]
                 /\ \E i \in 1..n : ret[ch] = arg.samples[i][ch]
            /\ ret[4] = 255
      /\ fn \in {"MaxColor", "MaxColorCol"}
         => /\ \A ch \in 1..3 :
                 /\ \A i \in 1..n : ret[ch] >= arg.samples[i][ch]
                 /\ \E i \in 1..n : ret[ch] = arg.samples[i][ch]
            /\ ret[4] = 255

\* The minimum of the column (10,20,30), (20,10,0) is (10,10,0), which is
\* neither sample.
C10_Witness ==
  /\ fn = "MinColorCol"
  /\ arg.samples = << <<10, 20, 30>>, <<20, 10, 0>> >>
  /\ ret = <<10, 10, 0, 255>>
  /\ \A i \in 1..2 : arg.samples[i] # <<ret[1], ret[2], ret[3]>>

(***************************************************************************)
(* Properties of a run: resize, order of the stages, decoration, stream.    *)
(***************************************************************************)
\* The magnitude of an integer.
Magnitude(v) == IF v < 0 THEN 0 - v ELSE v

\* C15: right after the resize step, a run given "input" holds an image of
\* exactly the probed width x height, whatever the number of frames read
\* and the orientation; a run given "WxH" holds an image of exactly W x H
\* pixels ("3X1": 3 x 1).  A number written with a minus sign, which
\* strconv.Atoi accepts, gives the size of its magnitude.
C15_ResizedToTarget ==
  pc = "Decorating"
  => /\ resize = Str_input
        => Dx(finalImage) = width /\ Dy(finalImage) = height
     /\ resize = <<51, 88, 49>>
        => Dx(finalImage) = 3 /\ Dy(finalImage) = 1
     /\ resize \notin {<<>>, Str_input}
        => LET parts == SplitX(ToLower(resize))
           IN  /\ Len(parts) = 2
               /\ Dx(finalImage) = Magnitude(Atoi(parts[1]).val)
               /\ Dy(finalImage) = Magnitude(Atoi(parts[2]).val)

\* Three frames of a 2 x 1 video, vertical: the canvas of 2 x 3 has been
\* resized to the probed 2 x 1.
C15_Witness ==
  /\ pc = "Decorating"
  /\ resize = Str_input
  /\ width = 2 /\ height = 1 /\ vertical
  /\ frameIdx = 3
  /\ Dx(finalImage) = 2 /\ Dy(finalImage) = 1

\* C16: a run whose resize string does not parse ("x2") fails before any
\* decoding work: the decoder is never started and no frame is read.
C16_Original ==
  resize = <<120, 50>>
  => /\ proc = "none"
     /\ frameIdx = 0
     /\ pc \in {"Probing", "Starting", "Failed"}

\* The position of a state of the run in the pipeline: Probing (probe,
\* start of the decoder), Streaming (loop, wait for the decoder),
\* Finalizing, Resampling, Decorating, the hand-over to the PNG encoder,
\* Done.
StageRank(p) ==
  CASE p = "Probing"    -> 0
    [] p = "Starting"   -> 1
    [] p = "Streaming"  -> 2
    [] p = "Waiting"    -> 3
    [] p = "Finalizing" -> 4
    [] p = "Resampling" -> 5
    [] p = "Decorating" -> 6
    [] p = "Persisting" -> 7
    [] p = "Done"       -> 8
    [] OTHER            -> 0 - 1

\* The rows of the legend band of the run.
LegendRows ==
  IF ~legend.Enabled THEN 0
  ELSE IF legend.Height = 0 THEN 24 ELSE legend.Height

\* C17: a run moves through Probing, Streaming, Finalizing, Resampling,
\* Decorating, Done in this order, one step at a time and never back; the
\* only other moves are into Failed (or out of the loop by the panic of a
\* division by zero); Done and Failed are never left.  The decoration step
\* comes after the resize step and adds the legend band to the resized
\* image: the final height is the resized height plus the legend height.
C17_StagesInOrder ==
  /\ [][pc' # pc
        => /\ pc \notin {"Done", "Failed", "Panicked"}
           /\ \/ StageRank(pc') = StageRank(pc) + 1
              \/ pc' = "Failed"
              \/ pc' = "Panicked" /\ pc = "Streaming"]_vars
  /\ [][(pc = "Decorating" /\ pc' # pc)
        => /\ pc' = "Persisting"
           /\ Dx(finalImage') = Dx(finalImage)
           /\ Dy(finalImage') = Dy(finalImage) + LegendRows]_vars
  /\ []((pc \in {"Persisting", "Done"} /\ resize = Str_input)
        => Dx(finalImage) = width /\ Dy(finalImage) = height + LegendRows)
  /\ []((pc \in {"Persisting", "Done"} /\ resize = <<51, 88, 49>>)
        => Dx(finalImage) = 3 /\ Dy(finalImage) = 1 + LegendRows)

\* A run with resize "3X1" and a legend of 8 rows is Done with an image of
\* 3 x 9.
C17_Witness ==
  /\ pc = "Done"
  /\ legend.Enabled /\ legend.Height = 8
  /\ resize = <<51, 88, 49>>
  /\ frameIdx = 2
  /\ Dx(finalImage) = 3 /\ Dy(finalImage) = 9

\* C18: with no resize target and a disabled legend (what Generate
\* passes) the image handed to the PNG encoder equals the cropped canvas in
\* size and pixel for pixel.
C18_Original ==
  (pc \in {"Persisting", "Done"} /\ resize = <<>> /\ ~legend.Enabled)
  => LET cropped == Crop(dnaImage, width, height, frameIdx, vertical)
     IN  /\ Dx(finalImage) = Dx(cropped)
         /\ Dy(finalImage) = Dy(cropped)
         /\ \A x \in 0..(Dx(cropped) - 1), y \in 0..(Dy(cropped) - 1) :
              At(finalImage, x, y) = At(cropped, x, y)

\* Byte j of the decoder's stream, and the FrameSize bytes of the stream
\* from byte k * FrameSize on.
StreamByte(j) ==
  FrameBytes(seed, j \div FrameSize, width, height)[j % FrameSize]

StreamChunk(k) == [i \in 0..(FrameSize - 1) |-> StreamByte(k * FrameSize + i)]

\* C20: bytes of an incomplete last frame never reach the canvas.  The
\* count of lines appended grows only in the loop, by one per complete
\* frame of FrameSize bytes read, and that step writes line k = frameIdx as
\* a reduction of bytes k*FrameSize .. (k+1)*FrameSize - 1 of the stream
\* and changes no other line; a short read (no byte, or a part of a frame)
\* or a read error appends nothing and changes no line; nothing is
\* appended after the loop.  So after B bytes the count is
\* floor(B / FrameSize), and every line of the cropped canvas is a
\* reduction of one complete frame's bytes.
C20_OnlyCompleteFrames ==
  /\ [][frameIdx' # frameIdx
        => /\ pc = "Streaming" /\ pc' = "Streaming"
           /\ readErr' = ""
           /\ frameIdx' = frameIdx + 1
           /\ frameIdx < maxFrames
              => LineOf(dnaImage', frameIdx)
                   \in FrameLines(StreamChunk(frameIdx), width, height,
                                  vertical, mode)
           /\ \A k \in 0..(maxFrames - 1) :
                k # frameIdx => LineOf(dnaImage', k) = LineOf(dnaImage, k)]_vars
  /\ [][(pc = "Streaming" /\ readErr' # "")
        => frameIdx' = frameIdx /\ dnaImage' = dnaImage]_vars
  /\ [][pc \notin {"Probing", "Starting", "Streaming"}
        => frameIdx' = frameIdx /\ dnaImage' = dnaImage]_vars
  /\ [](pc = "Resampling"
        => \A k \in 0..(Held - 1) :
             LineOf(finalImage, k)
               \in FrameLines(StreamChunk(k), width, height, vertical, mode))

\* A 2 x 2 video whose stream ends inside the third frame: two lines are
\* on the canvas and the third is unwritten.
C20_Witness ==
  /\ pc = "Waiting"
  /\ readErr = "ErrUnexpectedEOF"
  /\ width = 2 /\ height = 2
  /\ frameIdx = 2
  /\ LineOf(dnaImage, 1) \in FrameLines(StreamChunk(1), width, height, vertical, mode)
  /\ \A i \in 0..1 : LineOf(dnaImage, 2)[i] = ZeroColor

\* C21: every run terminates.  A run that has passed the probe check
\* reads frames of width*height*3 > 0 bytes, so that the loop ends with the
\* stream, and it does not end otherwise than in Done or Failed.
C21_Original ==
  /\ pc = "Streaming" => FrameSize > 0
  /\ pc # "Panicked"

(***************************************************************************)
(* resizeImage applied on its own: a source image and a target size are     *)
(* drawn, the image is resized, and the result is resized once more to the  *)
(* same target.                                                             *)
(***************************************************************************)
\* Largest width and height of the images drawn, and of the targets.
MaxImage == 2

\* An unwritten pixel and two written ones.
ImageColors == { ZeroColor, RGB(255, 255, 255), RGB(10, 20, 30) }

SourceImages ==
  UNION { { [x0 |-> 0, y0 |-> 0, x1 |-> w, y1 |-> h, pix |-> f] :
              f \in [Points(0, 0, w, h) -> ImageColors] } :
          w \in 1..MaxImage, h \in 1..MaxImage }

InitImage ==
  /\ NoRun
  /\ NoStems
  /\ arg \in { [img |-> i, tw |-> a, th |-> b] :
                 i \in SourceImages, a \in 1..MaxImage, b \in 1..MaxImage }
  /\ fn = ""
  /\ ret = EmptyImage

ApplyResizeImage ==
  /\ fn = ""
  /\ fn' = "resizeImage"
  /\ ret' = resizeImage(arg.img, arg.tw, arg.th)
  /\ UNCHANGED <<arg, run, stems>>

ApplyResizeImageAgain ==
  /\ fn = "resizeImage"
  /\ fn' = "resizeImage.resizeImage"
  /\ ret' = resizeImage(ret, arg.tw, arg.th)
  /\ UNCHANGED <<arg, run, stems>>

NextImage ==
  \/ ApplyResizeImage
  \/ ApplyResizeImageAgain

SpecImage == InitImage /\ [][NextImage]_vars

(***************************************************************************)
(* The body of the frame loop applied on its own: a frame and a mode are    *)
(* drawn and the frame is reduced to its line, row by row (horizontal) or   *)
(* column by column (vertical).                                             *)
(***************************************************************************)
\* Largest width and height of the frames drawn.
MaxFrame == 2

\* Two colours neither of which is below the other in every channel.
FrameColors == { <<10, 20, 30>>, <<20, 10, 0>> }

\* frameBuf holding the pixels in row-major order, three bytes each.
FrameOf(pixels, w, h) ==
  [i \in 0..(w * h * 3 - 1) |-> pixels[i \div 3][(i % 3) + 1]]

InitDemux ==
  /\ NoRun
  /\ NoStems
  /\ arg \in UNION { { [pixels |-> f, w |-> w, h |-> h, mode |-> m] :
                         f \in [0..(w * h - 1) -> FrameColors], m \in Modes } :
                     w \in 1..MaxFrame, h \in 1..MaxFrame }
  /\ fn = ""
  /\ ret = <<>>

DemuxHorizontal ==
  /\ fn = ""
  /\ fn' = "horizontal"
  /\ ret' \in FrameLines(FrameOf(arg.pixels, arg.w, arg.h), arg.w, arg.h,
                         FALSE, arg.mode)
  /\ UNCHANGED <<arg, run, stems>>

DemuxVertical ==
  /\ fn = ""
  /\ fn' = "vertical"
  /\ ret' \in FrameLines(FrameOf(arg.pixels, arg.w, arg.h), arg.w, arg.h,
                         TRUE, arg.mode)
  /\ UNCHANGED <<arg, run, stems>>

NextDemux ==
  \/ DemuxHorizontal
  \/ DemuxVertical

SpecDemux == InitDemux /\ [][NextDemux]_vars

(***************************************************************************)
(* Properties of the reducers and of resizeImage.                           *)
(***************************************************************************)
\* How often the colour c occurs among the samples.
Occurrences(samples, c) ==
  Cardinality({ i \in 1..Len(samples) : samples[i] = c })

\* The colour of a reducer's result without its alpha.
Opaque(c) == <<c[1], c[2], c[3]>>

\* C11: MostCommon of a non-empty row or column returns a colour that
\* occurs among the samples at least as often as every other sampled
\* colour, with alpha 255; when all samples are one colour it returns that
\* colour.
C11_MostCommonHasMaxCount ==
  fn \in {"MostCommonColor", "MostCommonColorCol"}
  => /\ Occurrences(arg.samples, Opaque(ret)) >= 1
     /\ \A i \in 1..Len(arg.samples) :
          Occurrences(arg.samples, Opaque(ret))
            >= Occurrences(arg.samples, arg.samples[i])
     /\ ret[4] = 255
     /\ (\A i \in 1..Len(arg.samples) : arg.samples[i] = arg.samples[1])
        => Opaque(ret) = arg.samples[1]

\* The column (10,20,30), (20,10,0), (20,10,0) of a frame two pixels wide:
\* the colour seen twice is returned.
C11_Witness ==
  /\ fn = "MostCommonColorCol"
  /\ arg.w = 2
  /\ arg.samples = << <<10, 20, 30>>, <<20, 10, 0>>, <<20, 10, 0>> >>
  /\ ret = <<20, 10, 0, 255>>

\* C12: MostCommon is deterministic: the colour returned is the only one
\* an evaluation on these samples can return, also when colours tie.
C12_Original ==
  /\ fn = "MostCommonColor"
     => \A c \in MostCommonColor(RowOf(arg.samples), Len(arg.samples)) : c = ret
  /\ fn = "MostCommonColorCol"
     => \A c \in MostCommonColorCol(FrameWithColumn(arg.samples, arg.w, arg.col),
                                    arg.col, arg.w, Len(arg.samples)) : c = ret

\* C13: on a scanline of one pixel p each of the four reducers, over a row
\* and over a column, returns p with alpha 255.
C13_SinglePixel ==
  (fn # "" /\ Len(arg.samples) = 1)
  => ret = <<arg.samples[1][1], arg.samples[1][2], arg.samples[1][3], 255>>

\* The one-pixel column (10,20,30) of a frame two pixels wide reduces to
\* (10,20,30) under MostCommon.
C13_Witness ==
  /\ fn = "MostCommonColorCol"
  /\ arg.w = 2 /\ arg.col = 1
  /\ arg.samples = << <<10, 20, 30>> >>
  /\ ret = <<10, 20, 30, 255>>

\* C14: resizing an image of w x h pixels (w, h >= 1) to w x h gives an
\* image of w x h pixels that equals the source at every pixel in the three
\* colour channels, with alpha 255; resizing the result to w x h again
\* gives the same image.
C14_ResizeToOwnSizeIsIdentity ==
  (fn \in {"resizeImage", "resizeImage.resizeImage"}
     /\ arg.tw = Dx(arg.img) /\ arg.th = Dy(arg.img))
  => /\ ret.x0 = 0 /\ ret.y0 = 0
     /\ Dx(ret) = Dx(arg.img) /\ Dy(ret) = Dy(arg.img)
     /\ \A p \in DOMAIN arg.img.pix :
          /\ Opaque(At(ret, p[1], p[2])) = Opaque(arg.img.pix[p])
          /\ At(ret, p[1], p[2])[4] = 255

\* A 2 x 2 image whose four pixels are not all alike, resized twice to
\* 2 x 2: the pixels are where they were.
C14_Witness ==
  /\ fn = "resizeImage.resizeImage"
  /\ arg.tw = 2 /\ arg.th = 2
  /\ Dx(arg.img) = 2 /\ Dy(arg.img) = 2
  /\ arg.img.pix[<<0, 0>>] = RGB(10, 20, 30)
  /\ arg.img.pix[<<1, 0>>] = RGB(255, 255, 255)
  /\ arg.img.pix[<<0, 1>>] = ZeroColor
  /\ At(ret, 0, 0) = RGB(10, 20, 30)
  /\ At(ret, 1, 0) = RGB(255, 255, 255)
  /\ At(ret, 0, 1) = RGB(0, 0, 0)

\* Whether the colour c is a reduction of the samples under the mode: the
\* truncated mean, the minimum or the maximum of each channel, or a colour
\* of the highest count, with alpha 255.
IsReduction(md, samples, c) ==
  LET n == Len(samples)
  IN  /\ c[4] = 255
      /\ md = "average"
         => \A ch \in 1..3 :
              /\ c[ch] * n <= ChannelSum(samples, n, ch)
              /\ ChannelSum(samples, n, ch) < (c[ch] + 1) * n
      /\ md = "min"
         => \A ch \in 1..3 :
              /\ \A i \in 1..n : c[ch] <= samples[i][ch]
              /\ \E i \in 1..n : c[ch] = samples[i][ch]
      /\ md = "max"
         => \A ch \in 1..3 :
              /\ \A i \in 1..n : c[ch] >= samples[i][ch]
              /\ \E i \in 1..n : c[ch] = samples[i][ch]
      /\ md = "common"
         => /\ Occurrences(samples, Opaque(c)) >= 1
            /\ \A i \in 1..n :
                 Occurrences(samples, Opaque(c)) >= Occurrences(samples, samples[i])

\* The pixel whose three bytes start at byte offset `at` of the buffer.
PixelAt(buf, at) == <<buf[at], buf[at + 1], buf[at + 2]>>

\* The frame with rows and columns exchanged: h pixels wide, w high.
Transposed(buf, w, h) ==
  [i \in 0..(w * h * 3 - 1) |->
     LET x == (i \div 3) % h
         y == (i \div 3) \div h
     IN  buf[(x * w + y) * 3 + (i % 3)]]

\* C19: for a frame of W x H pixels (W, H >= 1) in a buffer of W*H*3
\* bytes, the horizontal line has H colours, colour y a reduction of the W
\* pixels at byte offsets y*W*3 + x*3; the vertical line has W colours,
\* colour x a reduction of the H pixels at byte offsets (y*W + x)*3; every
\* one of these offsets, and the two bytes after it, lies in [0, W*H*3);
\* and the vertical lines of a frame are the horizontal lines of the
\* transposed frame.
C19_DemuxOffsets ==
  fn \in {"horizontal", "vertical"}
  => LET w   == arg.w
         h   == arg.h
         buf == FrameOf(arg.pixels, w, h)
     IN  /\ DOMAIN buf = 0..(w * h * 3 - 1)
         /\ \A x \in 0..(w - 1), y \in 0..(h - 1) :
              /\ {y * w * 3 + x * 3, y * w * 3 + x * 3 + 2} \subseteq DOMAIN buf
              /\ {(y * w + x) * 3, (y * w + x) * 3 + 2} \subseteq DOMAIN buf
         /\ fn = "horizontal"
            => /\ DOMAIN ret = 0..(h - 1)
               /\ \A y \in 0..(h - 1) :
                    IsReduction(arg.mode,
                                [x \in 1..w |-> PixelAt(buf, y * w * 3 + (x - 1) * 3)],
                                ret[y])
         /\ fn = "vertical"
            => /\ DOMAIN ret = 0..(w - 1)
               /\ \A x \in 0..(w - 1) :
                    IsReduction(arg.mode,
                                [y \in 1..h |-> PixelAt(buf, ((y - 1) * w + x) * 3)],
                                ret[x])
         /\ FrameLines(buf, w, h, TRUE, arg.mode)
              = FrameLines(Transposed(buf, w, h), h, w, FALSE, arg.mode)

\* The frame (10,20,30) (20,10,0) / (20,10,0) (20,10,0) reduced vertically
\* under min: (10,10,0) for column 0, (20,10,0) for column 1.
C19_Witness ==
  /\ fn = "vertical"
  /\ arg.w = 2 /\ arg.h = 2 /\ arg.mode = "min"
  /\ arg.pixels[0] = <<10, 20, 30>>
  /\ arg.pixels[1] = <<20, 10, 0>>
  /\ arg.pixels[2] = <<20, 10, 0>>
  /\ arg.pixels[3] = <<20, 10, 0>>
  /\ ret[0] = <<10, 10, 0, 255>>
  /\ ret[1] = <<20, 10, 0, 255>>


(***************************************************************************)
(* The pipeline on long videos: frames of 1 x 2 pixels, estimates up to     *)
(* MaxCount and one estimate of ProgressEvery frames, so that the canvas    *)
(* capacity takes its integer division and the loop reaches the frame       *)
(* after which it reports progress.  A stream holds at most MaxStream       *)
(* frames, or as many as were estimated; in horizontal orientation the      *)
(* image gets wide enough for the legend text, which starts at x = 8.       *)
(***************************************************************************)
MaxCount == 21

\* LegendConfig{} (disabled), and an enabled legend with a band of 3 rows,
\* lower than the 7 rows of the font, and the name "A".
LowLegends ==
  { [Enabled |-> FALSE, Height |-> 0, Name |-> <<>>],
    [Enabled |-> TRUE, Height |-> 3, Name |-> <<65>>] }

InitLong ==
  /\ pc = "Probing"
  /\ err = ""
  /\ width = 1
  /\ height = 2
  /\ frameCount \in (0..MaxCount) \cup {ProgressEvery}
  /\ vertical \in BOOLEAN
  /\ mode = "average"
  /\ resize = <<>>
  /\ silent \in BOOLEAN
  /\ legend \in LowLegends
  /\ seed = 0
  /\ ctxErr = ""
  /\ proc = "none"
  /\ readErr = ""
  /\ maxFrames = 0
  /\ dnaImage = EmptyImage
  /\ frameIdx = 0
  /\ finalImage = EmptyImage
  /\ outFile = "absent"
  /\ printed = 0
  /\ arg = <<>>
  /\ fn = ""
  /\ ret = <<>>
  /\ NoStems

SpecLong == InitLong /\ [][Next]_vars

(***************************************************************************)
(* Properties of the canvas capacity.                                       *)
(***************************************************************************)
\* The length of an image along the axis on which lines are appended, and
\* along the other axis.
Growing(img) == IF vertical THEN Dy(img) ELSE Dx(img)
Across(img) == IF vertical THEN Dx(img) ELSE Dy(img)

\* C22: for an estimate E >= 1 the canvas is allocated with
\* ceil(E * 1.1) + 10 lines along the growing axis.
C22_Original ==
  proc # "none" => Growing(dnaImage) = (11 * frameCount + 9) \div 10 + 10

\* C22, amended: the tenth is rounded down.  The canvas has
\* floor(E * 1.1) + 10 lines, which is ceil(E * 1.1) + 10 when E is a
\* multiple of 10 and one line less otherwise.
C22_TenthRoundedDown ==
  proc # "none" =>
    /\ Growing(dnaImage) = (11 * frameCount) \div 10 + 10
    /\ Growing(dnaImage) =
         (11 * frameCount + 9) \div 10 + 10
           - (IF frameCount % 10 = 0 THEN 0 ELSE 1)

C22_Witness ==
  /\ pc = "Streaming"
  /\ frameCount = 11
  /\ Growing(dnaImage) = 22

\* C23: for an estimate E >= 1 the canvas is allocated with E + E/10 + 10
\* lines (integer division) along the growing axis and with the height
\* (horizontal) or the width (vertical) of the video along the other axis,
\* and no later step changes the capacity or the bounds of the canvas.
C23_CapacityFixed ==
  /\ [](proc # "none" =>
          /\ maxFrames = frameCount + frameCount \div 10 + 10
          /\ Growing(dnaImage) = maxFrames
          /\ Across(dnaImage) = (IF vertical THEN width ELSE height)
          /\ dnaImage.x0 = 0 /\ dnaImage.y0 = 0)
  /\ [][proc # "none" =>
          /\ maxFrames' = maxFrames
          /\ Dx(dnaImage') = Dx(dnaImage)
          /\ Dy(dnaImage') = Dy(dnaImage)]_vars

C23_Witness ==
  /\ pc = "Done"
  /\ frameCount = 20
  /\ frameIdx = 20
  /\ maxFrames = 32
  /\ Growing(dnaImage) = 32

(***************************************************************************)
(* Properties of the resampler and of the decoration.                       *)
(***************************************************************************)
\* The four coordinates sampled for destination pixel (x, y) lie in the
\* source, in order.
SamplesInside(srcW, srcH, targetW, targetH, x, y) ==
  LET s == SampleCoords(srcW, srcH, targetW, targetH, x, y)
  IN  /\ 0 <= s.x0 /\ s.x0 <= s.x1 /\ s.x1 <= srcW - 1
      /\ 0 <= s.y0 /\ s.y0 <= s.y1 /\ s.y1 <= srcH - 1

\* C24: for every finalized canvas that is resized, one without lines
\* included, and every destination pixel, the sampled source coordinates
\* satisfy 0 <= x0 <= x1 <= srcW-1 and 0 <= y0 <= y1 <= srcH-1.
C24_Original ==
  LET r == ParseResize(resize, width, height)
  IN  (pc = "Resampling" /\ r.ok /\ r.resize) =>
        \A x \in 0..(r.w - 1), y \in 0..(r.h - 1) :
          SamplesInside(Dx(finalImage), Dy(finalImage), r.w, r.h, x, y)

\* The image b has the size of the image a, and each of its pixels is the
\* border colour where OnBorder holds and the pixel of a elsewhere.
Bordered(a, b, OnBorder(_)) ==
  /\ Dx(b) = Dx(a) /\ Dy(b) = Dy(a)
  /\ \A p \in DOMAIN b.pix :
       b.pix[p] = IF OnBorder(p) THEN BorderColor
                  ELSE At(a, a.x0 + p[1] - b.x0, a.y0 + p[2] - b.y0)

\* C25: addBorder keeps the dimensions and paints the border colour on
\* exactly the first and the last line of the growing axis: columns 0 and
\* N-1 in horizontal orientation, rows 0 and N-1 in vertical orientation;
\* every other pixel is the input pixel.
C25_Original ==
  [][(pc = "Decorating" /\ ~legend.Enabled) =>
       LET OnLine(p) == IF vertical
                        THEN p[2] = 0 \/ p[2] = Dy(finalImage) - 1
                        ELSE p[1] = 0 \/ p[1] = Dx(finalImage) - 1
       IN  Bordered(finalImage, finalImage', OnLine)]_vars

\* C25, amended: addBorderLines keeps the dimensions and paints the border
\* colour on exactly row 0 and row h-1, the top and the bottom of the
\* image, in either orientation; every other pixel is the input pixel.
C25_TopAndBottomRows ==
  [][(pc = "Decorating" /\ ~legend.Enabled) =>
       LET OnRow(p) == p[2] = 0 \/ p[2] = Dy(finalImage) - 1
       IN  Bordered(finalImage, finalImage', OnRow)]_vars

\* A horizontal image of three lines and one row after the border: the
\* middle column is painted too.
C25_Witness ==
  /\ pc = "Persisting"
  /\ ~legend.Enabled
  /\ ~vertical
  /\ frameIdx = 3
  /\ Dx(finalImage) = 3 /\ Dy(finalImage) = 1
  /\ resize = <<>>
  /\ finalImage.pix[<<1, 0>>] = BorderColor

\* C26: addLegend is a pure prepend.  For an input of w x h pixels and a
\* band of b >= 1 rows the result has w x (h + b) pixels, the rows [0, b)
\* hold only the band background and glyph pixels, and every pixel
\* (x, y + b) of the result is the pixel (x, y) of the input.
C26_Original ==
  [][(pc = "Decorating" /\ legend.Enabled) =>
       LET src == addBorderLines(finalImage)
           b   == LegendHeight(legend)
           dst == finalImage'
       IN  /\ b >= 1
           /\ Dx(dst) = Dx(src) /\ Dy(dst) = Dy(src) + b
           /\ \A p \in DOMAIN dst.pix :
                IF p[2] < b
                THEN dst.pix[p] \in {LabelBg, TextColor}
                ELSE dst.pix[p] = At(src, src.x0 + p[1], src.y0 + p[2] - b)]_vars

(***************************************************************************)
(* drawText applied on its own: a text of up to MaxText characters is       *)
(* drawn at (x, y) into an empty image high enough for the font and wide    *)
(* enough for MaxText glyphs.  The characters are "a", "A", "?", " " and    *)
(* U+0161, whose low byte is the byte of "a".                               *)
(***************************************************************************)
MaxText == 2

TextChars == {97, 65, 63, 32, 353}

Texts == UNION { [1..n -> TextChars] : n \in 0..MaxText }

TextCanvas == NewRGBA(0, 0, 6 * MaxText + 2, 7)

InitText ==
  /\ NoRun
  /\ NoStems
  /\ arg \in { [text |-> t, x |-> x, y |-> y] :
                 t \in Texts, x \in 0..1, y \in {-1, 0} }
  /\ fn = ""
  /\ ret = EmptyImage

ApplyDrawText ==
  Returns("drawText", drawText(TextCanvas, arg.text, arg.x, arg.y, TextColor))

NextText == ApplyDrawText

SpecText == InitText /\ [][NextText]_vars

\* The glyph table has an entry for the character ch itself.
HasGlyph(ch) == ch <= 255 /\ bitmapFont(ch) # <<>>

\* The pen before character i when a character without an entry advances
\* it by 4 and one with an entry by the glyph width + 1.
RECURSIVE PenOf(_, _, _)
PenOf(low, i, x) ==
  IF i = 1 THEN x
  ELSE PenOf(low, i - 1, x)
       + (IF HasGlyph(low[i - 1]) THEN Len(bitmapFont(low[i - 1])[1]) + 1 ELSE 4)

\* The points of the glyphs of the characters that have an entry.
GlyphPoints(text, x, y) ==
  LET low == ToLower(text)
  IN  UNION { IF HasGlyph(low[i])
              THEN UNION { { <<PenOf(low, i, x) + dx, y + dy>> :
                               dx \in RowLit(bitmapFont(low[i])[dy + 1]) } :
                           dy \in 0..6 }
              ELSE {} : i \in DOMAIN low }

\* C27: in drawText a character without an entry in the glyph table
\* (after lower-casing), a character above U+00FF included, paints no
\* pixel and advances the pen by 4; a character with an entry paints its
\* glyph and advances the pen by the glyph width + 1.
C27_Original ==
  fn = "drawText" =>
    \A p \in DOMAIN ret.pix :
      (ret.pix[p] = TextColor) <=> (p \in GlyphPoints(arg.text, arg.x, arg.y))

(***************************************************************************)
(* Progress output.                                                         *)
(***************************************************************************)
\* The steps that neither read silent nor print.
StepWithoutOutput ==
  \/ ProbeFail \/ StartFail \/ Start \/ DeadlineElapses \/ DecoderExit
  \/ ReadEOF \/ ReadUnexpectedEOF \/ ReadError \/ Wait \/ Resample
  \/ Decorate \/ CreateFail \/ Persist

\* The step taken is also a step of the run whose flag silent has the
\* other value and which has printed any number of lines so far: it
\* changes every variable but the count of printed lines in the same way.
StepOfOtherRun ==
  \A lines \in 0..1 : \E linesAfter \in 0..2 :
    \/ ProbeAs(~silent, lines, linesAfter)
    \/ ReadFrameAs(~silent, lines, linesAfter)
    \/ FinalizeAs(~silent, lines, linesAfter)
    \/ StepWithoutOutput /\ linesAfter = lines

\* C28: progress reporting does not influence the run.  The runs with
\* silent = false and with silent = true start in the same states but for
\* the flag, and every step of one is a step of the other up to the count
\* of printed lines: both go through the same states, to the same outcome
\* and the same image.
C28_SilentDoesNotInfluence ==
  /\ [][StepOfOtherRun]_vars
  /\ [][silent' = silent]_vars

\* A run that reports progress has printed the first line, the line after
\* ProgressEvery frames and the summary.
C28_Witness ==
  /\ pc = "Done"
  /\ ~silent
  /\ frameIdx = ProgressEvery
  /\ printed = 3

(***************************************************************************)
(* audiodna.Generate from the separation of the stems to the return after   *)
(* wg.Wait: one goroutine per stem extracts the waveform, which may fail,   *)
(* records the first error under the mutex or stores the data of the stem   *)
(* in its slot.  At most MaxStems of the six stem files exist.              *)
(***************************************************************************)
MaxStems == 3

\* The fields of StemFiles in the order of GetStemPaths and GetStemLabels.
StemOrder == <<"vocals", "drums", "bass", "other", "piano", "guitar">>

StemNames == {StemOrder[i] : i \in DOMAIN StemOrder}

\* The path of a stem file that was written.
PathOf(label) ==
  CASE label = "vocals" -> "vocals.wav" [] label = "drums" -> "drums.wav"
    [] label = "bass" -> "bass.wav" [] label = "other" -> "other.wav"
    [] label = "piano" -> "piano.wav" [] label = "guitar" -> "guitar.wav"

InputAudio == "input.mp3"

\* StemFiles.GetStemPaths: the non-empty paths, in the order of the fields.
GetStemPaths(s) ==
  LET all == [i \in DOMAIN StemOrder |-> s[StemOrder[i]]]
  IN  SelectSeq(all, LAMBDA path : path # "")

\* StemFiles.GetStemLabels: the labels of the non-empty paths.
GetStemLabels(s) == SelectSeq(StemOrder, LAMBDA label : s[label] # "")

\* stemPaths and stemLabels as Generate sets them: those of the separated
\* stems, or the input itself under the label "mixed" when the stems are
\* skipped or none was written.
StemPaths ==
  IF arg.skip \/ GetStemPaths(arg.files) = <<>>
  THEN <<InputAudio>> ELSE GetStemPaths(arg.files)

StemLabels ==
  IF arg.skip \/ GetStemPaths(arg.files) = <<>>
  THEN <<"mixed">> ELSE GetStemLabels(arg.files)

\* StemColors[label]; the zero colour for a label that is not a key.
StemColors(label) ==
  CASE label = "vocals" -> RGB(255, 100, 100) [] label = "drums" -> RGB(100, 200, 255)
    [] label = "bass" -> RGB(100, 255, 150) [] label = "other" -> RGB(200, 150, 255)
    [] label = "piano" -> RGB(255, 220, 100) [] label = "guitar" -> RGB(255, 180, 100)
    [] label = "mixed" -> RGB(200, 200, 200)
    [] OTHER -> ZeroColor

\* The zero value of StemData.
ZeroStemData == [Label |-> "", Segments |-> "", Color |-> ZeroColor]

\* The StemData a goroutine builds: the segments are those of the waveform
\* extracted from path.
NewStemData(path, label) ==
  [Label    |-> label,
   Segments |-> path,
   Color    |-> IF StemColors(label)[4] = 0 THEN StemColors("mixed")
                ELSE StemColors(label)]

StemFileSets ==
  { [label \in StemNames |-> IF label \in present THEN PathOf(label) ELSE ""] :
      present \in {S \in SUBSET StemNames : Cardinality(S) <= MaxStems} }

InitStems ==
  /\ NoRun
  /\ arg \in { [skip |-> FALSE, files |-> f] : f \in StemFileSets }
            \cup { [skip |-> TRUE, files |-> [label \in StemNames |-> ""]] }
  /\ fn = ""
  /\ ret = <<>>
  /\ generate = "Spawning"
  /\ goroutine = [i \in DOMAIN StemPaths |-> "unborn"]
  /\ errMu = 0
  /\ processErr = ""
  /\ stemDataList = [i \in DOMAIN StemPaths |-> ZeroStemData]
  /\ wg = 0

\* The goroutine idx moves from one position to another.
Goes(idx, from, to) ==
  /\ idx \in DOMAIN goroutine
  /\ goroutine[idx] = from
  /\ goroutine' = [goroutine EXCEPT ![idx] = to]
  /\ UNCHANGED <<arg, fn, ret, run, generate>>

\* One iteration of the loop over stemPaths: wg.Add(1) and the go
\* statement, for the stems in order.
Spawn(idx) ==
  /\ generate = "Spawning"
  /\ \A i \in 1..(idx - 1) : goroutine[i] # "unborn"
  /\ Goes(idx, "unborn", "extract")
  /\ wg' = wg + 1
  /\ UNCHANGED <<errMu, processErr, stemDataList>>

\* audio.ExtractWaveform returns the waveform or an error.
ExtractWaveform(idx) ==
  /\ \E failed \in BOOLEAN :
       Goes(idx, "extract", IF failed THEN "lock" ELSE "store")
  /\ UNCHANGED <<errMu, processErr, stemDataList, wg>>

\* errMu.Lock()
Lock(idx) ==
  /\ errMu = 0
  /\ Goes(idx, "lock", "record")
  /\ errMu' = idx
  /\ UNCHANGED <<processErr, stemDataList, wg>>

\* The error is recorded whether or not one was recorded before.
Record_Overwrites(idx) ==
  /\ Goes(idx, "record", "unlock")
  /\ processErr' = StemLabels[idx]
  /\ UNCHANGED <<errMu, stemDataList, wg>>

\* if processErr == nil { processErr = fmt.Errorf(..., label, err) }
Record(idx) ==
  /\ Goes(idx, "record", "unlock")
  /\ processErr' = IF processErr = "" THEN StemLabels[idx] ELSE processErr
  /\ UNCHANGED <<errMu, stemDataList, wg>>

\* errMu.Unlock(), then return.
Unlock(idx) ==
  /\ Goes(idx, "unlock", "returning")
  /\ errMu' = 0
  /\ UNCHANGED <<processErr, stemDataList, wg>>

\* stemDataList[idx] = StemData{...}
Store(idx) ==
  /\ Goes(idx, "store", "finishing")
  /\ stemDataList' = [stemDataList EXCEPT
                        ![idx] = NewStemData(StemPaths[idx], StemLabels[idx])]
  /\ UNCHANGED <<errMu, processErr, wg>>

\* The deferred wg.Done(), after the early return or at the end.
Done(idx) ==
  /\ \/ Goes(idx, "returning", "returned")
     \/ Goes(idx, "finishing", "done")
  /\ wg' = wg - 1
  /\ UNCHANGED <<errMu, processErr, stemDataList>>

\* wg.Wait() returns when the counter is 0, after the loop; Generate
\* returns (nil, processErr) when an error was recorded and goes on to
\* render otherwise.
WaitStems ==
  /\ generate = "Spawning"
  /\ \A i \in DOMAIN goroutine : goroutine[i] # "unborn"
  /\ wg = 0
  /\ generate' = IF processErr # "" THEN "Failed" ELSE "Rendering"
  /\ UNCHANGED <<arg, fn, ret, run, goroutine, errMu, processErr, stemDataList, wg>>

NextStems ==
  \/ \E idx \in DOMAIN goroutine : Spawn(idx)
  \/ \E idx \in DOMAIN goroutine : ExtractWaveform(idx)
  \/ \E idx \in DOMAIN goroutine : Lock(idx)
  \/ \E idx \in DOMAIN goroutine : Record(idx)
  \/ \E idx \in DOMAIN goroutine : Unlock(idx)
  \/ \E idx \in DOMAIN goroutine : Store(idx)
  \/ \E idx \in DOMAIN goroutine : Done(idx)
  \/ WaitStems

SpecStems == InitStems /\ [][NextStems]_vars

\* The goroutines that took the early return or are on the way to it.
Failing == { i \in DOMAIN goroutine :
               goroutine[i] \in {"lock", "record", "unlock", "returning", "returned"} }

\* C29: under every interleaving of the per-stem goroutines, a slot is
\* written only by the goroutine of its index; processErr is written only
\* by the holder of the mutex and keeps the first error recorded; after
\* wg.Wait Generate returns that error and no Result if an extraction
\* failed, and otherwise every slot holds the data of the stem at the same
\* index of stemPaths and stemLabels.
C29_StemsInTheirSlots ==
  /\ [][\A i \in DOMAIN stemDataList :
          stemDataList'[i] # stemDataList[i] =>
            /\ goroutine[i] = "store" /\ goroutine'[i] = "finishing"
            /\ \A j \in DOMAIN stemDataList \ {i} :
                 stemDataList'[j] = stemDataList[j]]_vars
  /\ [][processErr' # processErr =>
          /\ errMu \in DOMAIN goroutine
          /\ goroutine[errMu] = "record" /\ goroutine'[errMu] = "unlock"
          /\ processErr = ""
          /\ processErr' = StemLabels[errMu]]_vars
  /\ [](errMu # 0 => goroutine[errMu] \in {"record", "unlock"})
  /\ [](generate \in {"Failed", "Rendering"} =>
          /\ wg = 0
          /\ \A i \in DOMAIN goroutine : goroutine[i] \in {"returned", "done"}
          /\ (generate = "Failed") <=> (Failing # {})
          /\ generate = "Failed" =>
               \E i \in Failing : processErr = StemLabels[i]
          /\ generate = "Rendering" =>
               /\ processErr = ""
               /\ \A i \in DOMAIN stemDataList :
                    /\ stemDataList[i].Label = StemLabels[i]
                    /\ stemDataList[i].Segments = StemPaths[i]
                    /\ stemDataList[i].Color = StemColors(StemLabels[i])
                    /\ ~arg.skip /\ GetStemPaths(arg.files) # <<>> =>
                         StemPaths[i] = arg.files[StemLabels[i]])

\* Two extractions failed, the second one to lock found the error of the
\* first, and Generate has returned the first.
C29_Witness ==
  /\ generate = "Failed"
  /\ Cardinality(Failing) = 2
  /\ Len(StemPaths) = 3
  /\ processErr = StemLabels[3]
  /\ goroutine[1] = "returned"
  /\ goroutine[2] = "done"

(***************************************************************************)
(* audio.ExtractVolume applied on its own, to a waveform of up to MaxWave   *)
(* samples and up to MaxSegments segments.  A segment is modelled by the    *)
(* range of samples it is computed from.                                    *)
(***************************************************************************)
MaxWave == 6

MaxSegments == 8

\* The segments of a waveform of n samples: segment i (from 0) starts at
\* i * samplesPerSegment; its end is the start plus samplesPerSegment, the
\* number of samples for the last segment, and never more than that
\* number.  count is the number of iterations of the loop over its samples.
ExtractVolume(n, numSegments) ==
  IF numSegments <= 0 \/ n = 0 THEN <<>>
  ELSE LET samplesPerSegment == IF n \div numSegments < 1 THEN 1
                                ELSE n \div numSegments
       IN  [k \in 1..numSegments |->
              LET startIdx == (k - 1) * samplesPerSegment
                  e1 == IF k = numSegments THEN n ELSE startIdx + samplesPerSegment
                  endIdx == IF e1 > n THEN n ELSE e1
              IN  [startIdx |-> startIdx,
                   endIdx   |-> endIdx,
                   count    |-> IF endIdx > startIdx THEN endIdx - startIdx ELSE 0]]

InitVolume ==
  /\ NoRun
  /\ NoStems
  /\ arg \in { [samples |-> n, numSegments |-> k] :
                 n \in 0..MaxWave, k \in 0..MaxSegments }
  /\ fn = ""
  /\ ret = <<>>

ApplyExtractVolume ==
  Returns("ExtractVolume", ExtractVolume(arg.samples, arg.numSegments))

NextVolume == ApplyExtractVolume

SpecVolume == InitVolume /\ [][NextVolume]_vars

\* The ranges of the segments lie in the waveform, follow each other
\* without gap or overlap from the first sample to the last.
Partition(segments, n) ==
  /\ \A k \in DOMAIN segments :
       /\ 0 <= segments[k].startIdx
       /\ segments[k].startIdx <= segments[k].endIdx
       /\ segments[k].endIdx <= n
  /\ segments[1].startIdx = 0
  /\ \A k \in 1..(Len(segments) - 1) : segments[k + 1].startIdx = segments[k].endIdx
  /\ segments[Len(segments)].endIdx = n

\* C30: for a waveform of at least one sample and numSegments >= 1, also
\* greater than the number of samples, ExtractVolume returns numSegments
\* segments whose ranges [startIdx, endIdx) satisfy
\* 0 <= startIdx <= endIdx <= len(samples), are contiguous and disjoint
\* and cover every sample once, the last one taking the remainder.
C30_Original ==
  (fn = "ExtractVolume" /\ arg.samples >= 1 /\ arg.numSegments >= 1) =>
    /\ Len(ret) = arg.numSegments
    /\ Partition(ret, arg.samples)

=============================================================================
